---- MODULE Spec2Model ----
(***************************************************************************)
(* Model of the AEP call-centre performance pipeline:                      *)
(*   scripts/semantic_transformation.py  SemanticTransformer               *)
(*   scripts/top_performer_analysis.py   TopPerformerAnalyzer              *)
(*   scripts/aep_candidate_analysis.py   AEPCandidateAnalyzer              *)
(*   scripts/data_cleaning.py            AEPDataCleaner                    *)
(* Each class is a group of variables (its fields) and one action per      *)
(* method.  A data frame is a sequence of rows, a row is a record whose    *)
(* domain is the frame's set of columns.                                   *)
(***************************************************************************)
EXTENDS Integers, Sequences, FiniteSets, TLC

VARIABLES
    sem_df,              \* SemanticTransformer.df: [columns, rows]
    agent_summary,       \* TopPerformerAnalyzer.agent_summary
    top_performers,      \* TopPerformerAnalyzer.top_performers
    top_n,               \* the argument of the last identify_top_performers call
    aep_performers,      \* AEPCandidateAnalyzer.aep_performers
    aep_applicants,      \* AEPCandidateAnalyzer.aep_applicants
    matched_candidates,  \* AEPCandidateAnalyzer.matched_candidates
    outcome,             \* how the last AEPCandidateAnalyzer call ended
    name_str,            \* the manager_hierarchy_name cell given to parse_name
    name_columns,        \* what parse_name returned for it
    csv,                 \* the raw export at AEPDataCleaner.input_path
    clean_df,            \* AEPDataCleaner.df
    data_quality_report, \* AEPDataCleaner.data_quality_report
    pc,                  \* run_pipeline: the stage to run next, or how it ended
    column_mapping,      \* SemanticTransformer.column_mapping
    transformation_log,  \* SemanticTransformer.transformation_log
    events,              \* TopPerformerAnalyzer.df
    analysis_raised      \* the exception that ended the last TopPerformerAnalyzer call

vars == <<sem_df, agent_summary, top_performers, top_n, aep_performers,
          aep_applicants, matched_candidates, outcome, name_str, name_columns,
          csv, clean_df, data_quality_report, pc, column_mapping, transformation_log,
          events, analysis_raised>>

semVars == <<sem_df>>
rankVars == <<agent_summary, top_performers, top_n>>
matchVars == <<aep_performers, aep_applicants, matched_candidates, outcome>>
nameVars == <<name_str, name_columns>>
cleanVars == <<csv, clean_df, data_quality_report, pc>>
renameVars == <<column_mapping, transformation_log>>
eventVars == <<events, analysis_raised>>

\* A nullable cell is <<>> (None / NaN / NaT) or <<v>>.
Null == <<>>
Some(v) == <<v>>
Val(o) == o[1]
\* A field or column that does not exist.
Absent == "absent"

(***************************************************************************)
(* Generic helpers.                                                        *)
(***************************************************************************)
Min(a, b) == IF a <= b THEN a ELSE b

\* The positions 1..n as a sequence.
Positions(n) == [i \in 1..n |-> i]

(***************************************************************************)
(* SemanticTransformer.add_business_logic_columns                          *)
(***************************************************************************)
\* Scores are held in units of 1/ScoreScale.
ScoreScale == 2
MaxSemRows == 2

\* A bin edge is Fin(n) or float('inf').
Fin(n) == <<n>>
Inf == <<>>

\* a < b on bin edges
LessThan(a, b) == IF a = Inf THEN FALSE ELSE IF b = Inf THEN TRUE ELSE a[1] < b[1]

\* numpy searchsorted: the number of bin edges strictly below x (side='left')
\* or not above x (side='right').
searchsorted(bins, x, side) ==
    IF side = "left"
    THEN Cardinality({i \in 1..Len(bins) : LessThan(bins[i], x)})
    ELSE Cardinality({i \in 1..Len(bins) : ~LessThan(x, bins[i])})

\* pandas.cut of one value: the label of the bin holding x, or Null.
cut(x, bins, labels, right, include_lowest) ==
    IF x = Null THEN Null
    ELSE LET ids0 == searchsorted(bins, Fin(Val(x)), IF right THEN "left" ELSE "right")
             ids == IF include_lowest /\ Fin(Val(x)) = bins[1] THEN 1 ELSE ids0
         IN IF ids = Len(bins) \/ ids = 0 THEN Null ELSE Some(labels[ids])

TierBins == <<Fin(0), Fin(60 * ScoreScale), Fin(75 * ScoreScale),
              Fin(90 * ScoreScale), Fin(100 * ScoreScale)>>
TierLabels == <<"Needs_Improvement", "Meets_Expectations",
                "Exceeds_Expectations", "Outstanding">>

\* The same bucketing with left-closed bins (right=False).
performance_tier_left_closed(score) == cut(score, TierBins, TierLabels, FALSE, TRUE)

\* The same bucketing with the score first clamped to the outer edges.
performance_tier_clamped(score) ==
    cut(IF score = Null THEN Null
        ELSE IF Val(score) < Val(TierBins[1]) THEN Some(Val(TierBins[1]))
        ELSE IF Val(score) > Val(TierBins[Len(TierBins)]) THEN Some(Val(TierBins[Len(TierBins)]))
        ELSE score,
        TierBins, TierLabels, TRUE, TRUE)

performance_tier(score) == cut(score, TierBins, TierLabels, TRUE, TRUE)

EfficiencyBins == <<Fin(0), Fin(5), Fin(10), Fin(15), Inf>>
EfficiencyLabels == <<"Low", "Medium", "High", "Very_High">>

efficiency_category(rate) == cut(rate, EfficiencyBins, EfficiencyLabels, TRUE, TRUE)

RemoveAt(s, i) == SubSeq(s, 1, i - 1) \o SubSeq(s, i + 1, Len(s))

\* Ascending sort of a sequence of integers.
RECURSIVE SortAsc(_)
SortAsc(s) ==
    IF s = <<>> THEN <<>>
    ELSE LET m == CHOOSE i \in 1..Len(s) : \A j \in 1..Len(s) : s[i] <= s[j]
         IN <<s[m]>> \o SortAsc(RemoveAt(s, m))

\* Twice the pandas median of a column (NaN skipped; Null when nothing is left).
median2(values) ==
    LET nonnull == SelectSeq(values, LAMBDA v : v # Null)
        kept == SortAsc([i \in 1..Len(nonnull) |-> Val(nonnull[i])])
        n == Len(kept)
    IN IF n = 0 THEN Null
       ELSE IF n % 2 = 1 THEN Some(2 * kept[(n + 1) \div 2])
       ELSE Some(kept[n \div 2] + kept[n \div 2 + 1])

\* x > median, False when either side is NaN.
high_volume_day(x, med2) == x # Null /\ med2 # Null /\ 2 * Val(x) > Val(med2)

\* df[col] = F(i) for every row i.
SetColumn(df, col, F(_)) ==
    [columns |-> df.columns \cup {col},
     rows |-> [i \in 1..Len(df.rows) |->
                 [c \in df.columns \cup {col} |->
                     IF c = col THEN F(i) ELSE df.rows[i][c]]]]

Column(df, col) == [i \in 1..Len(df.rows) |-> df.rows[i][col]]

\* The same method with the time of the run also written into the rows that
\* have no score, as their performance_tier.
add_business_logic_columns_stamped(df, now) ==
    LET df1 == IF "overall_performance_score" \in df.columns
               THEN SetColumn(df, "performance_tier",
                        LAMBDA i : IF df.rows[i].overall_performance_score = Null
                                   THEN Some(now)
                                   ELSE performance_tier(df.rows[i].overall_performance_score))
               ELSE df
        med2 == IF "total_interactions" \in df1.columns
                THEN median2(Column(df1, "total_interactions")) ELSE Null
        df2 == IF "total_interactions" \in df1.columns
               THEN SetColumn(df1, "high_volume_day",
                        LAMBDA i : high_volume_day(df1.rows[i].total_interactions, med2))
               ELSE df1
        df3 == IF "hourly_interaction_rate" \in df2.columns
               THEN SetColumn(df2, "efficiency_category",
                        LAMBDA i : efficiency_category(df2.rows[i].hourly_interaction_rate))
               ELSE df2
    IN SetColumn(df3, "processed_timestamp", LAMBDA i : now)

add_business_logic_columns(df, now) ==
    LET df1 == IF "overall_performance_score" \in df.columns
               THEN SetColumn(df, "performance_tier",
                        LAMBDA i : performance_tier(df.rows[i].overall_performance_score))
               ELSE df
        med2 == IF "total_interactions" \in df1.columns
                THEN median2(Column(df1, "total_interactions")) ELSE Null
        df2 == IF "total_interactions" \in df1.columns
               THEN SetColumn(df1, "high_volume_day",
                        LAMBDA i : high_volume_day(df1.rows[i].total_interactions, med2))
               ELSE df1
        df3 == IF "hourly_interaction_rate" \in df2.columns
               THEN SetColumn(df2, "efficiency_category",
                        LAMBDA i : efficiency_category(df2.rows[i].hourly_interaction_rate))
               ELSE df2
    IN SetColumn(df3, "processed_timestamp", LAMBDA i : now)

\* Input domains of the semantic stage.
TierEdges == {0, 60, 75, 90, 100}
\* The bin edges, the neighbours of the interior edges 60 and 90, one score below
\* the lowest and one above the highest edge, and NaN.
Scores ==
    {Some(e * ScoreScale) : e \in TierEdges}
        \cup {Some(e * ScoreScale + d) : e \in {60, 90}, d \in {-1, 1}}
        \cup {Some(-1), Some(100 * ScoreScale + 1), Null}
Interactions == {Some(1), Some(2)}
HourlyRates == {Some(5), Some(6)}
Timestamps == {"t1", "t2"}

SemDomain(c) ==
    CASE c = "overall_performance_score" -> Scores
      [] c = "total_interactions" -> Interactions
      [] c = "hourly_interaction_rate" -> HourlyRates

SemInputColumns == {"overall_performance_score", "total_interactions",
                    "hourly_interaction_rate"}

\* The rows a frame over the columns cols may hold.
SemRowsOver(cols) ==
    {r \in [cols -> Scores \cup Interactions \cup HourlyRates] :
        \A c \in cols : r[c] \in SemDomain(c)}

IdleSem == sem_df = Absent
IdleRank == agent_summary = Absent /\ top_performers = Absent /\ top_n = Absent
IdleMatch == /\ aep_performers = Absent /\ aep_applicants = Absent
             /\ matched_candidates = Absent /\ outcome = Absent
IdleName == name_str = Absent /\ name_columns = Absent
IdleClean == /\ csv = Absent /\ clean_df = Absent
             /\ data_quality_report = Absent /\ pc = Absent
IdleRename == column_mapping = Absent /\ transformation_log = Absent
IdleEvents == events = Absent /\ analysis_raised = Absent

InitTier ==
    /\ \E cols \in SUBSET SemInputColumns :
          LET rowset == SemRowsOver(cols)
          IN \E k \in 0..MaxSemRows : \E rows \in [1..k -> rowset] :
                sem_df = [columns |-> cols, rows |-> rows]
    /\ IdleRank /\ IdleMatch /\ IdleName /\ IdleClean /\ IdleRename /\ IdleEvents

AddBusinessLogicColumns ==
    /\ "processed_timestamp" \notin sem_df.columns
    /\ \E now \in Timestamps : sem_df' = add_business_logic_columns(sem_df, now)
    /\ UNCHANGED <<rankVars, matchVars, nameVars,
                 cleanVars, renameVars, eventVars>>

NextTier == AddBusinessLogicColumns

SpecTier == InitTier /\ [][NextTier]_vars

MIN_DAYS_WORKED == 10
MaxAgents == 3
MaxScore == 2
MaxTopN == 3

\* The rows of df at the positions idx, in that order (DataFrame.take).
Take(df, idx) == [columns |-> df.columns, rows |-> [k \in 1..Len(idx) |-> df.rows[idx[k]]]]

\* self.agent_summary[self.agent_summary['days_worked'] >= 10]
qualified_agents_no_floor(summary) == summary

qualified_agents(summary) ==
    Take(summary, SelectSeq(Positions(Len(summary.rows)),
                            LAMBDA i : summary.rows[i].days_worked >= MIN_DAYS_WORKED))

\* The positions rem ordered by value, largest first; among equal values the
\* position that keep prefers ("first": the earliest, "last": the latest) leads.
RECURSIVE argsort_desc(_, _, _)
argsort_desc(values, rem, keep) ==
    IF rem = {} THEN <<>>
    ELSE LET m == CHOOSE i \in rem : \A j \in rem :
                     \/ values[i] > values[j]
                     \/ values[i] = values[j]
                          /\ (IF keep = "first" THEN i <= j ELSE i >= j)
         IN <<m>> \o argsort_desc(values, rem \ {m}, keep)

\* Series.nlargest / Series.nsmallest: the non-NaN values in order, then the NaN
\* ones in frame order, cut to n rows.
select_n(df, n, col, keep, largest) ==
    LET len == Len(df.rows)
        nonnull == {i \in 1..len : df.rows[i][col] # Null}
        nan_index == SelectSeq(Positions(len), LAMBDA i : df.rows[i][col] = Null)
        values == [i \in 1..len |->
                      IF i \in nonnull
                      THEN (IF largest THEN Val(df.rows[i][col]) ELSE 0 - Val(df.rows[i][col]))
                      ELSE 0]
        order == argsort_desc(values, nonnull, keep) \o nan_index
    IN IF n <= 0 THEN Take(df, <<>>)
       ELSE Take(df, SubSeq(order, 1, Min(n, len)))

nlargest_keep_last(df, n, col) == select_n(df, n, col, "last", TRUE)

nsmallest(df, n, col) == select_n(df, n, col, "first", FALSE)

\* DataFrame.nlargest(n, col) with the default keep='first'.
nlargest(df, n, col) == select_n(df, n, col, "first", TRUE)

\* top_performers['rank'] = range(1, len(top_performers) + 1)
assign_rank(df) == SetColumn(df, "rank", LAMBDA i : i)

\* The ranking written into agent_summary itself instead of into a copy.
identify_top_performers_in_place(summary, n) ==
    LET ranked == assign_rank(nlargest(qualified_agents(summary), n,
                                       "composite_performance_score"))
    IN [agent_summary |-> assign_rank(summary), top_performers |-> ranked]

\* The analyzer's fields after identify_top_performers(top_n=n).
identify_top_performers(summary, n) ==
    LET qualified == qualified_agents(summary)
        top == nlargest(qualified, n, "composite_performance_score")
    IN [agent_summary |-> summary, top_performers |-> assign_rank(top)]

\* Agent summaries: one row per agent, agent_name i standing for the i-th distinct
\* agent key; composite scores are in units of 0.0001 (round(4)), or NaN.
SummaryColumns == {"agent_name", "days_worked", "composite_performance_score"}
DaysWorked == {MIN_DAYS_WORKED - 1, MIN_DAYS_WORKED}
CompositeScores == {Some(v) : v \in 0..MaxScore} \cup {Null}

InitRank ==
    /\ \E k \in 0..MaxAgents :
          \E days \in [1..k -> DaysWorked], score \in [1..k -> CompositeScores] :
              agent_summary =
                  [columns |-> SummaryColumns,
                   rows |-> [i \in 1..k |->
                                [agent_name |-> i, days_worked |-> days[i],
                                 composite_performance_score |-> score[i]]]]
    /\ top_performers = Null
    /\ top_n = Null
    /\ IdleSem /\ IdleMatch /\ IdleName /\ IdleClean /\ IdleRename /\ IdleEvents

IdentifyTopPerformers ==
    \E n \in 0..MaxTopN :
        LET self == identify_top_performers(agent_summary, n)
        IN /\ agent_summary' = self.agent_summary
           /\ top_performers' = self.top_performers
           /\ top_n' = Some(n)
           /\ UNCHANGED <<semVars, matchVars, nameVars,
                 cleanVars, renameVars, eventVars>>

NextRank == IdentifyTopPerformers

SpecRank == InitRank /\ [][NextRank]_vars

Ranked == top_performers # Null

\* The agents (by agent_name) in top_performers, and the qualified ones.
TopNames == {top_performers.rows[i].agent_name : i \in 1..Len(top_performers.rows)}
QualifiedNames ==
    {i \in 1..Len(agent_summary.rows) :
        agent_summary.rows[i].days_worked >= MIN_DAYS_WORKED}
ScoreOf(i) == agent_summary.rows[i].composite_performance_score

\* a > b on floats: False when either is NaN.
Greater(a, b) == a # Null /\ b # Null /\ Val(a) > Val(b)

\* C2: every agent in top_performers has days_worked >= 10, whatever its score.
C2_FloorRespected ==
    Ranked =>
        /\ \A i \in 1..Len(top_performers.rows) :
              top_performers.rows[i].days_worked >= MIN_DAYS_WORKED
        /\ \A a \in TopNames : agent_summary.rows[a].days_worked >= MIN_DAYS_WORKED

C2_Witness ==
    /\ Ranked
    /\ Len(top_performers.rows) > 0
    /\ Len(top_performers.rows) < Val(top_n)
    /\ \E a \in 1..Len(agent_summary.rows) :
          /\ agent_summary.rows[a].days_worked < MIN_DAYS_WORKED
          /\ \A q \in QualifiedNames : Greater(ScoreOf(a), ScoreOf(q))

\* C3: top_performers holds exactly min(K, Q) agents, ordered by composite score
\* descending, no left-out qualified agent scores higher than a selected one, and
\* row i has rank i.
C3_TopKRanked ==
    Ranked =>
        LET rows == top_performers.rows
        IN /\ Len(rows) = Min(Val(top_n), Cardinality(QualifiedNames))
           /\ TopNames \subseteq QualifiedNames
           /\ Cardinality(TopNames) = Len(rows)
           /\ \A i \in 1..Len(rows) :
                 /\ rows[i].rank = i
                 /\ rows[i] = [c \in top_performers.columns |->
                                  IF c = "rank" THEN i
                                  ELSE agent_summary.rows[rows[i].agent_name][c]]
           /\ \A i, j \in 1..Len(rows) :
                 i < j => ~Greater(rows[j].composite_performance_score,
                                   rows[i].composite_performance_score)
           /\ \A q \in QualifiedNames \ TopNames : \A a \in TopNames :
                 ~Greater(ScoreOf(q), ScoreOf(a))

\* Fewer agents qualify than asked for, and some qualified agent is left out in
\* another reachable state: here the short case, all qualified agents ranked.
C3_Witness ==
    /\ Ranked
    /\ Cardinality(QualifiedNames) >= 2
    /\ Cardinality(QualifiedNames) < Val(top_n)
    /\ Len(top_performers.rows) = Cardinality(QualifiedNames)
    /\ \E i, j \in 1..Len(top_performers.rows) :
          Greater(top_performers.rows[i].composite_performance_score,
                  top_performers.rows[j].composite_performance_score)

\* C4: among qualified agents with equal composite score the one earlier in
\* agent_summary comes first, and at the cut-off the earlier one is selected.
C4_TiesByInputOrder ==
    Ranked =>
        LET rows == top_performers.rows
        IN /\ \A i, j \in 1..Len(rows) :
                 (i < j /\ rows[i].composite_performance_score # Null
                        /\ rows[i].composite_performance_score
                             = rows[j].composite_performance_score)
                    => rows[i].agent_name < rows[j].agent_name
           /\ \A q \in QualifiedNames \ TopNames : \A a \in TopNames :
                 (ScoreOf(q) # Null /\ ScoreOf(q) = ScoreOf(a)) => a < q

C4_Witness ==
    /\ Ranked
    /\ \E a \in TopNames : \E q \in QualifiedNames \ TopNames :
          ScoreOf(a) # Null /\ ScoreOf(a) = ScoreOf(q)
    /\ \E i, j \in 1..Len(top_performers.rows) :
          /\ i < j
          /\ top_performers.rows[i].composite_performance_score # Null
          /\ top_performers.rows[i].composite_performance_score
                = top_performers.rows[j].composite_performance_score

\* C5: identify_top_performers leaves agent_summary as it was, without a rank
\* column; rank exists only on the rows of top_performers.
C5_SummaryUnchanged ==
    [][IdentifyTopPerformers =>
          /\ agent_summary' = agent_summary
          /\ "rank" \notin agent_summary'.columns
          /\ \A i \in 1..Len(agent_summary'.rows) :
                "rank" \notin DOMAIN agent_summary'.rows[i]
          /\ "rank" \in top_performers'.columns]_vars

C5_Witness ==
    /\ Ranked
    /\ Len(top_performers.rows) > 0
    /\ \E a \in 1..Len(agent_summary.rows) :
          agent_summary.rows[a].days_worked < MIN_DAYS_WORKED

(***************************************************************************)
(* AEPCandidateAnalyzer: loading the two datasets and matching them        *)
(***************************************************************************)
MaxPerfRows == 2
MaxApplicants == 2
\* A timestamp is a number of ticks; a calendar day has TicksPerDay of them.
TicksPerDay == 2

\* Strings are sequences of characters.
Whitespace == {" ", "\t"}
UpperOf(c) ==
    CASE c = "j" -> "J"
      [] c = "d" -> "D"
      [] c = "e" -> "E"
      [] OTHER -> c
CharCode(c) ==
    CASE c = " " -> 32
      [] c = "," -> 44
      [] c = "D" -> 68
      [] c = "E" -> 69
      [] c = "J" -> 74
      [] c = "d" -> 100
      [] c = "e" -> 101
      [] c = "j" -> 106
      [] c = "-" -> 45
      [] c \in {"0", "1", "2", "3", "4", "5", "6", "7", "8", "9"} ->
            48 + CHOOSE n \in 0..9 : <<"0", "1", "2", "3", "4", "5", "6", "7", "8", "9">>[n + 1] = c

\* str.strip(): without its leading and trailing whitespace.
strip(s) ==
    LET solid == {i \in 1..Len(s) : s[i] \notin Whitespace}
    IN IF solid = {} THEN <<>>
       ELSE SubSeq(s, CHOOSE i \in solid : \A j \in solid : i <= j,
                      CHOOSE i \in solid : \A j \in solid : i >= j)

\* str.upper()
upper(s) == [i \in 1..Len(s) |-> UpperOf(s[i])]

\* Series.str.strip().str.upper() on one cell: NaN stays NaN.
str_strip_upper(name) == IF name = Null THEN Null ELSE Some(upper(strip(Val(name))))

\* Python's order on strings.
RECURSIVE StrLess(_, _)
StrLess(a, b) ==
    IF b = <<>> THEN FALSE
    ELSE IF a = <<>> THEN TRUE
    ELSE IF a[1] # b[1] THEN CharCode(a[1]) < CharCode(b[1])
    ELSE StrLess(Tail(a), Tail(b))

KeyLess(k1, k2) == StrLess(k1[1], k2[1]) \/ (k1[1] = k2[1] /\ StrLess(k1[2], k2[2]))

RECURSIVE SortKeys(_)
SortKeys(keys) ==
    IF keys = {} THEN <<>>
    ELSE LET m == CHOOSE k \in keys : \A o \in keys : o = k \/ KeyLess(k, o)
         IN <<m>> \o SortKeys(keys \ {m})

\* min of a column of timestamps, NaT skipped; NaT when nothing is left.
min_date(dates) ==
    LET known == {Val(d) : d \in {e \in dates : e # Null}}
    IN IF known = {} THEN Null
       ELSE Some(CHOOSE t \in known : \A u \in known : t <= u)

Frame(columns, rows) == [columns |-> columns, rows |-> rows]

PerformerColumns == {"agent_first_name", "agent_last_name", "first_performance_date",
                     "first_name_clean", "last_name_clean"}
ApplicantColumns == {"applicant_id", "first_name", "last_name", "application_date",
                     "first_name_clean", "last_name_clean"}
MatchedColumns == {"agent_first_name", "agent_last_name", "applicant_id",
                   "application_date", "first_performance_date"}

\* The performers frame load_aep_performance_data builds from the rows of the
\* cleaned file: one row per (agent_first_name, agent_last_name) with both names
\* present, in key order, with the earliest performance date and the cleaned names.
\* (The score aggregates are carried along and read by nothing modelled here.)
load_aep_performance_data(file) ==
    LET keyed == {i \in 1..Len(file) :
                     file[i].agent_first_name # Null /\ file[i].agent_last_name # Null}
        keys == SortKeys({<<Val(file[i].agent_first_name), Val(file[i].agent_last_name)>> :
                             i \in keyed})
    IN Frame(PerformerColumns, [k \in 1..Len(keys) |->
           [agent_first_name |-> Some(keys[k][1]),
            agent_last_name |-> Some(keys[k][2]),
            first_performance_date |->
                min_date({file[i].date : i \in {j \in keyed :
                    <<Val(file[j].agent_first_name), Val(file[j].agent_last_name)>> = keys[k]}}),
            first_name_clean |-> str_strip_upper(Some(keys[k][1])),
            last_name_clean |-> str_strip_upper(Some(keys[k][2]))]])

\* The applicants frame built from the fetched applicant records.
get_aep_applicants(records) ==
    Frame(ApplicantColumns, [i \in 1..Len(records) |->
        [applicant_id |-> i,
         first_name |-> records[i].first_name,
         last_name |-> records[i].last_name,
         application_date |-> records[i].application_date,
         first_name_clean |-> str_strip_upper(records[i].first_name),
         last_name_clean |-> str_strip_upper(records[i].last_name)]])

\* Series.dt.date: the calendar day of a timestamp, NaT stays NaT.
dt_date(t) == IF t = Null THEN Null ELSE Some(Val(t) \div TicksPerDay)

\* Same-day applications let through.
application_precedes_or_same_day(application_date, first_performance_date) ==
    LET a == dt_date(application_date)
        p == dt_date(first_performance_date)
    IN a # Null /\ p # Null /\ Val(a) <= Val(p)

\* matches['application_date'].dt.date < matches['first_performance_date'].dt.date,
\* False where either date is missing.
application_precedes(application_date, first_performance_date) ==
    LET a == dt_date(application_date)
        p == dt_date(first_performance_date)
    IN a # Null /\ p # Null /\ Val(a) < Val(p)

Flatten(ss) ==
    LET F[k \in 0..Len(ss)] == IF k = 0 THEN <<>> ELSE F[k - 1] \o ss[k]
    IN F[Len(ss)]

JoinedRow(l, r) == [left |-> l, right |-> r]

\* An inner join that keeps one applicant per performer.
merge_first_match(left, right) ==
    Flatten([i \in 1..Len(left.rows) |->
        LET hits == SelectSeq(right.rows, LAMBDA r :
                        /\ left.rows[i].first_name_clean = r.first_name_clean
                        /\ left.rows[i].last_name_clean = r.last_name_clean)
        IN IF hits = <<>> THEN <<>> ELSE <<JoinedRow(left.rows[i], hits[1])>>])

\* DataFrame.merge(how='inner') on (first_name_clean, last_name_clean): every
\* pair of a left and a right row with equal keys, in left order.
merge(left, right) ==
    Flatten([i \in 1..Len(left.rows) |->
        LET hits == SelectSeq(right.rows, LAMBDA r :
                        /\ left.rows[i].first_name_clean = r.first_name_clean
                        /\ left.rows[i].last_name_clean = r.last_name_clean)
        IN [j \in 1..Len(hits) |-> JoinedRow(left.rows[i], hits[j])]])

MatchedRow(m) ==
    [agent_first_name |-> m.left.agent_first_name,
     agent_last_name |-> m.left.agent_last_name,
     applicant_id |-> m.right.applicant_id,
     application_date |-> m.right.application_date,
     first_performance_date |-> m.left.first_performance_date]

\* An unloaded dataset gives an empty result instead of an error.
match_performers_to_applicants_silent(performers, applicants, matched) ==
    IF performers = Null \/ applicants = Null
    THEN [outcome |-> "ok", matched_candidates |-> Frame(MatchedColumns, <<>>)]
    ELSE LET kept == SelectSeq(merge(performers, applicants), LAMBDA m :
                         application_precedes(m.right.application_date,
                                              m.left.first_performance_date))
         IN [outcome |-> "ok",
             matched_candidates |->
                 Frame(MatchedColumns, [k \in 1..Len(kept) |-> MatchedRow(kept[k])])]

\* How match_performers_to_applicants ends and what matched_candidates is then.
match_performers_to_applicants(performers, applicants, matched) ==
    IF performers = Null \/ applicants = Null
    THEN [outcome |-> "ValueError", matched_candidates |-> matched]
    ELSE LET matches == merge(performers, applicants)
             kept == SelectSeq(matches, LAMBDA m :
                         application_precedes(m.right.application_date,
                                              m.left.first_performance_date))
         IN [outcome |-> "ok",
             matched_candidates |->
                 Frame(MatchedColumns, [k \in 1..Len(kept) |-> MatchedRow(kept[k])])]

\* Input domains: three raw (first, last) names, the first two equal once trimmed
\* and upper-cased; applicants carry the second or the third.
AgentNames == {<< <<"j">>, <<"d">> >>,
               << <<" ", "J">>, <<"D", " ">> >>,
               << <<"j">>, <<"e">> >>}
ApplicantNames == {<< <<" ", "J">>, <<"D", " ">> >>,
                   << <<"j">>, <<"e">> >>}
PerformanceDates == {Null, Some(1), Some(2), Some(3)}
ApplicationDates == {Null, Some(1), Some(2)}

PerformanceFiles ==
    UNION {[1..k -> {[agent_first_name |-> Some(n[1]), agent_last_name |-> Some(n[2]),
                      date |-> d] : n \in AgentNames, d \in PerformanceDates}] :
           k \in 0..MaxPerfRows}
ApplicantRecords ==
    UNION {[1..k -> {[first_name |-> Some(n[1]), last_name |-> Some(n[2]),
                      application_date |-> d] : n \in ApplicantNames, d \in ApplicationDates}] :
           k \in 0..MaxApplicants}

InitMatch ==
    /\ aep_performers = Null
    /\ aep_applicants = Null
    /\ matched_candidates = Null
    /\ outcome = "ok"
    /\ IdleSem /\ IdleRank /\ IdleName /\ IdleClean /\ IdleRename /\ IdleEvents

\* Each dataset is loaded once.
LoadAepPerformanceData ==
    /\ aep_performers = Null
    /\ \E file \in PerformanceFiles : aep_performers' = load_aep_performance_data(file)
    /\ outcome' = "ok"
    /\ UNCHANGED <<aep_applicants, matched_candidates, semVars, rankVars, nameVars,
                 cleanVars, renameVars, eventVars>>

\* pd.read_csv or pd.to_datetime raises: the except clause re-raises.
LoadAepPerformanceDataFails ==
    /\ aep_performers = Null
    /\ outcome' = "Exception"
    /\ UNCHANGED <<aep_performers, aep_applicants, matched_candidates,
                   semVars, rankVars, nameVars,
                 cleanVars, renameVars, eventVars>>

GetAepApplicants ==
    /\ aep_applicants = Null
    /\ \E records \in ApplicantRecords : aep_applicants' = get_aep_applicants(records)
    /\ outcome' = "ok"
    /\ UNCHANGED <<aep_performers, matched_candidates, semVars, rankVars, nameVars,
                 cleanVars, renameVars, eventVars>>

MatchPerformersToApplicants ==
    LET r == match_performers_to_applicants(aep_performers, aep_applicants,
                                            matched_candidates)
    IN /\ outcome' = r.outcome
       /\ matched_candidates' = r.matched_candidates
       /\ UNCHANGED <<aep_performers, aep_applicants, semVars, rankVars, nameVars,
                 cleanVars, renameVars, eventVars>>

NextMatch ==
    \/ LoadAepPerformanceData
    \/ LoadAepPerformanceDataFails
    \/ GetAepApplicants
    \/ MatchPerformersToApplicants

SpecMatch == InitMatch /\ [][NextMatch]_vars

Matched == matched_candidates # Null

\* C6: every matched row has its application on a calendar day strictly before
\* the day of the first performance date.
C6_StrictDatePrecedence ==
    Matched =>
        \A k \in 1..Len(matched_candidates.rows) :
            LET m == matched_candidates.rows[k]
            IN /\ m.application_date # Null
               /\ m.first_performance_date # Null
               /\ Val(m.application_date) \div TicksPerDay
                     < Val(m.first_performance_date) \div TicksPerDay

\* Some pair with equal names is on the same day (the application earlier in the
\* day) and is left out, while another pair is matched.
C6_Witness ==
    /\ Matched
    /\ Len(matched_candidates.rows) > 0
    /\ \E i \in 1..Len(aep_performers.rows) : \E j \in 1..Len(aep_applicants.rows) :
          /\ aep_performers.rows[i].first_name_clean = aep_applicants.rows[j].first_name_clean
          /\ aep_performers.rows[i].last_name_clean = aep_applicants.rows[j].last_name_clean
          /\ aep_applicants.rows[j].application_date # Null
          /\ aep_performers.rows[i].first_performance_date # Null
          /\ Val(aep_applicants.rows[j].application_date)
                < Val(aep_performers.rows[i].first_performance_date)
          /\ Val(aep_applicants.rows[j].application_date) \div TicksPerDay
                = Val(aep_performers.rows[i].first_performance_date) \div TicksPerDay

\* Reference reading of "trimmed, upper-cased": s without the spaces around it,
\* letter by letter in capitals.
RECURSIVE TrimLeft(_)
TrimLeft(s) == IF s # <<>> /\ Head(s) = " " THEN TrimLeft(Tail(s)) ELSE s
RECURSIVE TrimRight(_)
TrimRight(s) ==
    IF s # <<>> /\ s[Len(s)] = " " THEN TrimRight(SubSeq(s, 1, Len(s) - 1)) ELSE s
Capital(c) == IF c = "j" THEN "J" ELSE IF c = "d" THEN "D" ELSE IF c = "e" THEN "E" ELSE c
NormalName(s) == LET t == TrimRight(TrimLeft(s)) IN [i \in 1..Len(t) |-> Capital(t[i])]

\* Performer row i and applicant row j qualify.
Qualifies(i, j) ==
    LET p == aep_performers.rows[i]
        a == aep_applicants.rows[j]
    IN /\ NormalName(Val(p.agent_first_name)) = NormalName(Val(a.first_name))
       /\ NormalName(Val(p.agent_last_name)) = NormalName(Val(a.last_name))
       /\ a.application_date # Null
       /\ p.first_performance_date # Null
       /\ Val(a.application_date) \div TicksPerDay
             < Val(p.first_performance_date) \div TicksPerDay

\* The output rows that join performer row i with applicant row j.
RowsFor(i, j) ==
    {k \in 1..Len(matched_candidates.rows) :
        /\ matched_candidates.rows[k].agent_first_name = aep_performers.rows[i].agent_first_name
        /\ matched_candidates.rows[k].agent_last_name = aep_performers.rows[i].agent_last_name
        /\ matched_candidates.rows[k].applicant_id = aep_applicants.rows[j].applicant_id}

\* C7: the output holds exactly one row per qualifying (performer, applicant) pair
\* and no other row.
C7_OneRowPerQualifyingPair ==
    Matched =>
        /\ \A i \in 1..Len(aep_performers.rows) : \A j \in 1..Len(aep_applicants.rows) :
              Cardinality(RowsFor(i, j)) = (IF Qualifies(i, j) THEN 1 ELSE 0)
        /\ \A k \in 1..Len(matched_candidates.rows) :
              \E i \in 1..Len(aep_performers.rows) : \E j \in 1..Len(aep_applicants.rows) :
                  /\ k \in RowsFor(i, j)
                  /\ matched_candidates.rows[k].application_date
                        = aep_applicants.rows[j].application_date
                  /\ matched_candidates.rows[k].first_performance_date
                        = aep_performers.rows[i].first_performance_date

\* One performer matched with two applicants, one of them under a name that
\* differs from the performer's in case and surrounding whitespace, and one
\* applicant matched with two performers.
C7_Witness ==
    /\ Matched
    /\ \E i \in 1..Len(aep_performers.rows) : \E j1, j2 \in 1..Len(aep_applicants.rows) :
          /\ j1 # j2
          /\ RowsFor(i, j1) # {} /\ RowsFor(i, j2) # {}
          /\ aep_applicants.rows[j1].first_name # aep_performers.rows[i].agent_first_name
    /\ \E j \in 1..Len(aep_applicants.rows) : \E i1, i2 \in 1..Len(aep_performers.rows) :
          i1 # i2 /\ RowsFor(i1, j) # {} /\ RowsFor(i2, j) # {}

\* C8: a match call with a dataset still unloaded raises and changes no field;
\* matched_candidates is set only when both datasets are loaded.
C8_UnloadedRaises ==
    /\ [](Matched => aep_performers # Null /\ aep_applicants # Null)
    /\ [][(MatchPerformersToApplicants
             /\ (aep_performers = Null \/ aep_applicants = Null))
          => /\ outcome' = "ValueError"
             /\ UNCHANGED <<aep_performers, aep_applicants, matched_candidates>>]_vars

\* The match call has raised with one dataset loaded and the other not.
C8_Witness ==
    /\ outcome = "ValueError"
    /\ aep_performers # Null
    /\ aep_applicants = Null
    /\ matched_candidates = Null

(***************************************************************************)
(* AEPDataCleaner.parse_agent_names and its parse_name                     *)
(***************************************************************************)
MaxNameLen == 6

NameAlphabet == {"a", "b", ",", " "}

\* A cell of the manager_hierarchy_name column: a string, None, NaN or a number.
StrCell(chars) == [type |-> "str", value |-> chars]
NoneCell == [type |-> "NoneType", value |-> <<>>]
NaNCell == [type |-> "nan", value |-> <<>>]
NumberCell == [type |-> "float", value |-> <<>>]
\* The frame has no manager_hierarchy_name column.
NoColumn == [type |-> "absent", value |-> <<>>]

isna(cell) == cell.type \in {"NoneType", "nan"}
isinstance_str(cell) == cell.type = "str"

\* str.split(sep): the pieces between the occurrences of sep.
RECURSIVE split(_, _)
split(s, sep) ==
    LET at == {i \in 1..Len(s) : s[i] = sep}
    IN IF at = {} THEN <<s>>
       ELSE LET i == CHOOSE k \in at : \A j \in at : k <= j
            IN <<SubSeq(s, 1, i - 1)>> \o split(SubSeq(s, i + 1, Len(s)), sep)

\* str.split(): the runs of non-whitespace characters.
RECURSIVE split_whitespace(_)
split_whitespace(s) ==
    IF s = <<>> THEN <<>>
    ELSE IF s[1] \in Whitespace THEN split_whitespace(Tail(s))
    ELSE LET gaps == {i \in 1..Len(s) : s[i] \in Whitespace}
         IN IF gaps = {} THEN <<s>>
            ELSE LET i == CHOOSE k \in gaps : \A j \in gaps : k <= j
                 IN <<SubSeq(s, 1, i - 1)>> \o split_whitespace(SubSeq(s, i, Len(s)))

\* What a call returns: the Series it returns, or the exception it raises.
Returns(series) == [raised |-> "", series |-> series]
Raises(exc) == [raised |-> exc, series |-> <<>>]

NullNames == <<Null, Null, Null>>

\* parse_name; check_segments is the len(parts) != 2 test, strip_last the
\* parts[0].strip().
parse_name_with(cell, check_segments, strip_last) ==
    IF isna(cell) \/ ~isinstance_str(cell) THEN Returns(NullNames)
    ELSE LET parts == split(strip(cell.value), ",")
         IN IF check_segments /\ Len(parts) # 2 THEN Returns(NullNames)
            ELSE IF Len(parts) < 2 THEN Raises("IndexError")
            ELSE LET last_name == IF strip_last THEN strip(parts[1]) ELSE parts[1]
                     first_part == strip(parts[2])
                     name_parts == split_whitespace(first_part)
                 IN IF Len(name_parts) = 0
                    THEN Returns(<<Some(last_name), Null, Null>>)
                    ELSE IF Len(name_parts) = 1
                    THEN Returns(<<Some(last_name), Some(name_parts[1]), Null>>)
                    ELSE Returns(<<Some(last_name), Some(name_parts[1]),
                                   IF name_parts[Len(name_parts)] # <<>>
                                   THEN Some(<<name_parts[Len(name_parts)][1]>>)
                                   ELSE Null>>)

\* parse_name without the test of the number of segments.
parse_name_unchecked(cell) == parse_name_with(cell, FALSE, TRUE)

\* parse_name with the last name taken untrimmed.
parse_name_untrimmed(cell) == parse_name_with(cell, TRUE, FALSE)

parse_name(cell) == parse_name_with(cell, TRUE, TRUE)

\* parse_agent_names on a frame of one row: skipped when the column is missing.
parse_agent_names(cell) ==
    IF cell = NoColumn THEN Returns(<<>>) ELSE parse_name(cell)

NameStrings == UNION {[1..k -> NameAlphabet] : k \in 0..MaxNameLen}

InitName ==
    /\ name_str \in {StrCell(chars) : chars \in NameStrings}
                      \cup {NoneCell, NaNCell, NumberCell, NoColumn}
    /\ name_columns = Null
    /\ IdleSem /\ IdleRank /\ IdleMatch /\ IdleClean /\ IdleRename /\ IdleEvents

ParseAgentNames ==
    /\ name_columns = Null
    /\ name_columns' = parse_agent_names(name_str)
    /\ UNCHANGED <<name_str, semVars, rankVars, matchVars,
                 cleanVars, renameVars, eventVars>>

NextName == ParseAgentNames

SpecName == InitName /\ [][NextName]_vars

Parsed == name_columns # Null /\ name_str # NoColumn

\* Reference rules, read off the positions of the characters of the input.
CommasOf(s) == {i \in 1..Len(s) : s[i] = ","}
TheComma(s) == CHOOSE i \in CommasOf(s) : TRUE
Segment1(s) == SubSeq(s, 1, TheComma(s) - 1)
Segment2(s) == SubSeq(s, TheComma(s) + 1, Len(s))
\* The tokens of s: its maximal runs <<from, to>> without a space.
TokensOf(s) ==
    {run \in (1..Len(s)) \X (1..Len(s)) :
        /\ run[1] <= run[2]
        /\ \A i \in run[1]..run[2] : s[i] # " "
        /\ (run[1] = 1 \/ s[run[1] - 1] = " ")
        /\ (run[2] = Len(s) \/ s[run[2] + 1] = " ")}
FirstToken(s) ==
    LET run == CHOOSE r \in TokensOf(s) : \A o \in TokensOf(s) : r[1] <= o[1]
    IN SubSeq(s, run[1], run[2])
LastToken(s) ==
    LET run == CHOOSE r \in TokensOf(s) : \A o \in TokensOf(s) : r[1] >= o[1]
    IN SubSeq(s, run[1], run[2])

ExpectedNames(cell) ==
    IF cell.type # "str" \/ Cardinality(CommasOf(cell.value)) # 1 THEN NullNames
    ELSE LET last == Some(TrimRight(TrimLeft(Segment1(cell.value))))
             rest == Segment2(cell.value)
             n == Cardinality(TokensOf(rest))
         IN IF n = 0 THEN <<last, Null, Null>>
            ELSE IF n = 1 THEN <<last, Some(FirstToken(rest)), Null>>
            ELSE <<last, Some(FirstToken(rest)), Some(<<LastToken(rest)[1]>>)>>

\* C9: parse_name returns what the reference rules give, on every input.
C9_ParseNameAgrees ==
    Parsed => name_columns = Returns(ExpectedNames(name_str))

\* Two tokens after the comma, the last one of two characters, and a space
\* before the comma.
C9_Witness ==
    /\ Parsed
    /\ name_str.type = "str"
    /\ Cardinality(CommasOf(name_str.value)) = 1
    /\ Cardinality(TokensOf(Segment2(name_str.value))) = 2
    /\ Len(LastToken(Segment2(name_str.value))) = 2
    /\ name_columns.series[3] # Null

\* C10: parse_name raises on no input, and what a malformed input leaves
\* undetermined is null.
C10_NeverRaises ==
    Parsed =>
        /\ name_columns.raised = ""
        /\ Len(name_columns.series) = 3
        /\ (name_str.type # "str" \/ Cardinality(CommasOf(name_str.value)) # 1)
              => name_columns.series = NullNames
        /\ (name_str.type = "str" /\ Cardinality(CommasOf(name_str.value)) = 1)
              => LET after == Segment2(name_str.value)
                     solid == {i \in 1..Len(after) : after[i] # " "}
                 IN /\ name_columns.series[1] # Null
                    /\ solid = {} => (name_columns.series[2] = Null
                                        /\ name_columns.series[3] = Null)
                    /\ (solid # {} /\ \A i, j \in solid : i..j \subseteq solid)
                          => (name_columns.series[2] # Null
                                /\ name_columns.series[3] = Null)

\* A string without a comma has been parsed to three nulls.
C10_Witness ==
    /\ Parsed
    /\ name_str.type = "str"
    /\ Len(name_str.value) > 0
    /\ CommasOf(name_str.value) = {}
    /\ name_columns = Returns(NullNames)

(***************************************************************************)
(* AEPDataCleaner: the cleaning pipeline of data_cleaning.py               *)
(***************************************************************************)
MaxCleanRows == 2

\* Text is a sequence of characters.
Uppers == <<"A", "B", "C", "D", "E", "F", "G", "H", "I", "J", "K", "L", "M",
            "N", "O", "P", "Q", "R", "S", "T", "U", "V", "W", "X", "Y", "Z">>
Lowers == <<"a", "b", "c", "d", "e", "f", "g", "h", "i", "j", "k", "l", "m",
            "n", "o", "p", "q", "r", "s", "t", "u", "v", "w", "x", "y", "z">>
Digits == <<"0", "1", "2", "3", "4", "5", "6", "7", "8", "9">>

IndexOf(seq, c) == CHOOSE i \in 1..Len(seq) : seq[i] = c
Among(seq, c) == \E i \in 1..Len(seq) : seq[i] = c

LowerOf(c) == IF Among(Uppers, c) THEN Lowers[IndexOf(Uppers, c)] ELSE c
\* str.lower()
lower(s) == [i \in 1..Len(s) |-> LowerOf(s[i])]

\* str.replace(old, new): the occurrences of old, left to right, not overlapping.
RECURSIVE replace(_, _, _)
replace(s, old, new) ==
    IF Len(s) < Len(old) THEN s
    ELSE IF SubSeq(s, 1, Len(old)) = old
    THEN new \o replace(SubSeq(s, Len(old) + 1, Len(s)), old, new)
    ELSE <<s[1]>> \o replace(Tail(s), old, new)

\* str.rstrip(chars)
RECURSIVE rstrip(_, _)
rstrip(s, chars) ==
    IF s # <<>> /\ s[Len(s)] \in chars THEN rstrip(SubSeq(s, 1, Len(s) - 1), chars) ELSE s

\* '<sub>' in s
Contains(s, c) == \E i \in 1..Len(s) : s[i] = c

IsDigits(s) == s # <<>> /\ \A i \in 1..Len(s) : Among(Digits, s[i])
RECURSIVE NatOf(_)
NatOf(s) == IF s = <<>> THEN 0
            ELSE 10 * NatOf(SubSeq(s, 1, Len(s) - 1)) + (IndexOf(Digits, s[Len(s)]) - 1)
RECURSIVE TextOfNat(_)
TextOfNat(n) == IF n < 10 THEN <<Digits[n + 1]>>
                ELSE TextOfNat(n \div 10) \o <<Digits[(n % 10) + 1]>>
\* The decimal digits of n, zero-padded to the width.
RECURSIVE Padded(_, _)
Padded(n, width) == LET t == TextOfNat(n)
                    IN IF Len(t) >= width THEN t ELSE <<"0">> \o Padded(n, width - 1)
RECURSIVE Power10(_)
Power10(k) == IF k = 0 THEN 1 ELSE 10 * Power10(k - 1)

\* A float is a fraction <<n, d>> in lowest terms with d > 0; <<1, 0>> and
\* <<-1, 0>> are inf and -inf.  NaN is a cell of its own.
Abs(n) == IF n < 0 THEN -n ELSE n
RECURSIVE GCD(_, _)
GCD(a, b) == IF b = 0 THEN a ELSE GCD(b, a % b)
Rat(n, d) ==
    IF d = 0 THEN <<IF n < 0 THEN -1 ELSE 1, 0>>
    ELSE LET g == GCD(Abs(n), Abs(d))
             sg == IF d < 0 THEN -1 ELSE 1
         IN <<sg * (n \div g), sg * (d \div g)>>
PosInf == <<1, 0>>
RatOfInt(n) == <<n, 1>>
RatLess(a, b) == a[1] * b[2] < b[1] * a[2]
IsIntegral(a) == a[2] = 1

\* Cells: StrCell and NaNCell as above, and the numbers and booleans.
IntCell(n) == [type |-> "int", value |-> <<n>>]
FloatCell(r) == [type |-> "float", value |-> r]
BoolCell(b) == [type |-> "bool", value |-> <<b>>]
IsNumber(cell) == cell.type \in {"int", "float"}
\* The value of a number cell as a fraction.
Number(cell) == IF cell.type = "int" THEN RatOfInt(cell.value[1]) ELSE cell.value

\* What a conversion of one value gives when the value cannot be converted.
Invalid == [type |-> "error", value |-> <<>>]

\* The digits [. digits] of a decimal numeral, as a fraction; Invalid otherwise.
decimal_of(body) ==
    LET dots == {i \in 1..Len(body) : body[i] = "."}
    IN IF dots = {} THEN IF IsDigits(body) THEN FloatCell(RatOfInt(NatOf(body))) ELSE Invalid
       ELSE IF Cardinality(dots) > 1 THEN Invalid
       ELSE LET p == CHOOSE i \in dots : TRUE
                whole == SubSeq(body, 1, p - 1)
                frac == SubSeq(body, p + 1, Len(body))
            IN IF /\ whole \o frac # <<>>
                  /\ \A i \in 1..Len(whole \o frac) : Among(Digits, (whole \o frac)[i])
               THEN FloatCell(Rat(NatOf(whole \o frac), Power10(Len(frac))))
               ELSE Invalid

\* float(text): surrounding whitespace, a sign, then nan, inf, infinity or a
\* decimal numeral (numerals with an exponent are not written here).
float_of(text) ==
    LET t == strip(text)
        signed == t # <<>> /\ t[1] \in {"-", "+"}
        negative == t # <<>> /\ t[1] = "-"
        body == IF signed THEN Tail(t) ELSE t
        word == lower(body)
        magnitude == IF word = <<"n", "a", "n">> THEN NaNCell
                     ELSE IF word \in {<<"i", "n", "f">>,
                                       <<"i", "n", "f", "i", "n", "i", "t", "y">>}
                     THEN FloatCell(PosInf)
                     ELSE decimal_of(body)
    IN IF magnitude.type = "float" /\ negative
       THEN FloatCell(<<-magnitude.value[1], magnitude.value[2]>>)
       ELSE magnitude

\* An integer literal: a sign and digits.
IsIntText(text) ==
    LET body == IF text # <<>> /\ text[1] \in {"-", "+"} THEN Tail(text) ELSE text
    IN IsDigits(body)
int_of(text) == IF text[1] = "-" THEN -NatOf(Tail(text))
                ELSE IF text[1] = "+" THEN NatOf(Tail(text)) ELSE NatOf(text)

\* repr of a float with a terminating decimal expansion.
repr_float(r) ==
    IF r[2] = 0 THEN (IF r[1] < 0 THEN <<"-">> ELSE <<>>) \o <<"i", "n", "f">>
    ELSE LET ks == {k \in 1..6 : Power10(k) % r[2] = 0}
             k == IF ks = {} THEN 6 ELSE CHOOSE j \in ks : \A o \in ks : j <= o
             scaled == (Abs(r[1]) * Power10(k)) \div r[2]
         IN (IF r[1] < 0 THEN <<"-">> ELSE <<>>)
            \o TextOfNat(scaled \div Power10(k)) \o <<".">> \o Padded(scaled % Power10(k), k)

\* Series.astype(str) on one cell.
astype_str(cell) ==
    CASE cell.type = "str" -> cell.value
      [] cell.type = "int" -> (IF cell.value[1] < 0 THEN <<"-">> ELSE <<>>)
                              \o TextOfNat(Abs(cell.value[1]))
      [] cell.type = "float" -> repr_float(cell.value)
      [] cell.type = "bool" -> IF cell.value[1] THEN <<"T", "r", "u", "e">>
                               ELSE <<"F", "a", "l", "s", "e">>
      [] OTHER -> <<"n", "a", "n">>

\* The fields read_csv takes for missing values (its default na_values).
NaTexts == {<<>>, <<"N", "A">>, <<"N", "a", "N">>, <<"n", "a", "n">>,
            <<"N", "U", "L", "L">>, <<"n", "u", "l", "l">>, <<"N", "o", "n", "e">>,
            <<"N", "/", "A">>, <<"n", "/", "a">>, <<"<", "N", "A", ">">>,
            <<"#", "N", "/", "A">>, <<"#", "N", "A">>, <<"-", "N", "a", "N">>,
            <<"-", "n", "a", "n">>}

\* The dtype read_csv infers for a column from its fields.
infer_dtype(fields) ==
    LET known == {i \in 1..Len(fields) : fields[i] \notin NaTexts}
    IN IF \A i \in known : IsIntText(fields[i])
       THEN IF known = 1..Len(fields) /\ known # {} THEN "int64" ELSE "float64"
       ELSE IF \A i \in known : float_of(fields[i]).type = "float"
       THEN "float64" ELSE "object"

read_field(text, dtype) ==
    IF text \in NaTexts THEN NaNCell
    ELSE CASE dtype = "int64" -> IntCell(int_of(text))
           [] dtype = "float64" -> float_of(text)
           [] OTHER -> StrCell(text)

\* A frame of the cleaner: the labels in order, the dtype of each column and
\* the rows, each a function from the labels to cells.
Table(columns, dtypes, rows) == [columns |-> columns, dtypes |-> dtypes, rows |-> rows]
Labels(d) == {d.columns[k] : k \in 1..Len(d.columns)}

\* pd.read_csv: every column gets the dtype inferred from all of its fields.
read_csv(file) ==
    LET dtype(c) == infer_dtype([i \in 1..Len(file.rows) |-> file.rows[i][c]])
    IN Table(file.columns,
             [c \in Labels(file) |-> dtype(c)],
             [i \in 1..Len(file.rows) |->
                [c \in Labels(file) |-> read_field(file.rows[i][c], dtype(c))]])

\* The column labels the cleaner names, as text.
col_date_year == <<"d", "a", "t", "e", "_", "y", "e", "a", "r">>
col_date_month == <<"d", "a", "t", "e", "_", "m", "o", "n", "t", "h">>
col_date_day == <<"d", "a", "t", "e", "_", "d", "a", "y">>
col_date == <<"d", "a", "t", "e">>
col_weekday == <<"w", "e", "e", "k", "d", "a", "y">>
col_week_number == <<"w", "e", "e", "k", "_", "n", "u", "m", "b", "e", "r">>
col_is_weekend == <<"i", "s", "_", "w", "e", "e", "k", "e", "n", "d">>
col_talk == <<"t", "a", "l", "k">>
col_hold == <<"h", "o", "l", "d">>
col_acw == <<"a", "c", "w">>
col_aht == <<"a", "h", "t">>
col_interaction_count ==
    <<"i", "n", "t", "e", "r", "a", "c", "t", "i", "o", "n", "_", "c", "o", 
      "u", "n", "t">>
col_paperless_conversion ==
    <<"p", "a", "p", "e", "r", "l", "e", "s", "s", "_", "c", "o", "n", "v", 
      "e", "r", "s", "i", "o", "n">>
col_homeserve_transfers ==
    <<"h", "o", "m", "e", "s", "e", "r", "v", "e", "_", "t", "r", "a", "n", 
      "s", "f", "e", "r", "s">>
col_allconnect_xfer_match_combo ==
    <<"a", "l", "l", "c", "o", "n", "n", "e", "c", "t", "_", "x", "f", "e", 
      "r", "/", "m", "a", "t", "c", "h", "_", "c", "o", "m", "b", "o">>
col_osat_with_agent == <<"o", "s", "a", "t", "_", "w", "i", "t", "h", "_", "a", "g", "e", "n", "t">>
col_resolution_rate == <<"r", "e", "s", "o", "l", "u", "t", "i", "o", "n", "_", "r", "a", "t", "e">>
col_talk_available_pct ==
    <<"t", "a", "l", "k", "_", "a", "v", "a", "i", "l", "a", "b", "l", "e", 
      "_", "%">>
col_off_phone_pct == <<"o", "f", "f", "_", "p", "h", "o", "n", "e", "_", "%">>
col_conformance == <<"c", "o", "n", "f", "o", "r", "m", "a", "n", "c", "e">>
col_performance_score ==
    <<"p", "e", "r", "f", "o", "r", "m", "a", "n", "c", "e", "_", "s", "c", 
      "o", "r", "e">>
col_calls_per_hour == <<"c", "a", "l", "l", "s", "_", "p", "e", "r", "_", "h", "o", "u", "r">>
col_manager_hierarchy_name ==
    <<"m", "a", "n", "a", "g", "e", "r", "_", "h", "i", "e", "r", "a", "r", 
      "c", "h", "y", "_", "n", "a", "m", "e">>
col_agent_last_name == <<"a", "g", "e", "n", "t", "_", "l", "a", "s", "t", "_", "n", "a", "m", "e">>
col_agent_first_name ==
    <<"a", "g", "e", "n", "t", "_", "f", "i", "r", "s", "t", "_", "n", "a", 
      "m", "e">>
col_agent_middle_initial ==
    <<"a", "g", "e", "n", "t", "_", "m", "i", "d", "d", "l", "e", "_", "i", 
      "n", "i", "t", "i", "a", "l">>

\* The header of a raw export: labels with capitals, spaces and " - ".
raw_date_year == <<"D", "a", "t", "e", " ", "Y", "e", "a", "r">>
raw_date_month == <<"D", "a", "t", "e", " ", "M", "o", "n", "t", "h">>
raw_date_day == <<"D", "a", "t", "e", " ", "D", "a", "y">>
raw_name ==
    <<"M", "a", "n", "a", "g", "e", "r", " ", "H", "i", "e", "r", "a", "r", 
      "c", "h", "y", " ", "-", " ", "N", "a", "m", "e">>
raw_talk_available ==
    <<"T", "a", "l", "k", " ", "A", "v", "a", "i", "l", "a", "b", "l", "e", 
      " ", "%">>
raw_resolution_rate == <<"R", "e", "s", "o", "l", "u", "t", "i", "o", "n", " ", "R", "a", "t", "e">>
raw_conformance == <<" ", "C", "o", "n", "f", "o", "r", "m", "a", "n", "c", "e">>
raw_aht == <<"A", "H", "T">>
raw_talk == <<"T", "a", "l", "k">>
raw_interaction_count ==
    <<"I", "n", "t", "e", "r", "a", "c", "t", "i", "o", "n", " ", "C", "o", 
      "u", "n", "t">>

\* calendar.month_name and calendar.day_name
MonthNames ==
    <<<<"J", "a", "n", "u", "a", "r", "y">>,
      <<"F", "e", "b", "r", "u", "a", "r", "y">>,
      <<"M", "a", "r", "c", "h">>,
      <<"A", "p", "r", "i", "l">>,
      <<"M", "a", "y">>,
      <<"J", "u", "n", "e">>,
      <<"J", "u", "l", "y">>,
      <<"A", "u", "g", "u", "s", "t">>,
      <<"S", "e", "p", "t", "e", "m", "b", "e", "r">>,
      <<"O", "c", "t", "o", "b", "e", "r">>,
      <<"N", "o", "v", "e", "m", "b", "e", "r">>,
      <<"D", "e", "c", "e", "m", "b", "e", "r">>>>
DayNames ==
    <<<<"M", "o", "n", "d", "a", "y">>,
      <<"T", "u", "e", "s", "d", "a", "y">>,
      <<"W", "e", "d", "n", "e", "s", "d", "a", "y">>,
      <<"T", "h", "u", "r", "s", "d", "a", "y">>,
      <<"F", "r", "i", "d", "a", "y">>,
      <<"S", "a", "t", "u", "r", "d", "a", "y">>,
      <<"S", "u", "n", "d", "a", "y">>>>

\* What a stage leaves: the frame, and the exception it raised if it did.
Done(d) == [raised |-> "", df |-> d]
Failed(exc, d) == [raised |-> exc, df |-> d]

\* df[col] = values: the column is replaced in place or appended.
Assign(d, col, dtype, values) ==
    Table(IF col \in Labels(d) THEN d.columns ELSE Append(d.columns, col),
          [c \in Labels(d) \cup {col} |-> IF c = col THEN dtype ELSE d.dtypes[c]],
          [i \in 1..Len(d.rows) |->
             [c \in Labels(d) \cup {col} |-> IF c = col THEN values[i] ELSE d.rows[i][c]]])
Cells(d, col) == [i \in 1..Len(d.rows) |-> d.rows[i][col]]

\* str.replace(old, new, 1): the first occurrence of old only.
RECURSIVE replace_first(_, _, _)
replace_first(s, old, new) ==
    IF Len(s) < Len(old) THEN s
    ELSE IF SubSeq(s, 1, Len(old)) = old
    THEN new \o SubSeq(s, Len(old) + 1, Len(s))
    ELSE <<s[1]>> \o replace_first(Tail(s), old, new)
\* The normalisation with only the first ' - ' and the first space replaced.
clean_label_first(col) ==
    lower(replace_first(replace_first(strip(col), <<" ", "-", " ">>, <<"_">>),
                        <<" ">>, <<"_">>))
\* clean_column_names: col.strip().replace(' - ', '_').replace(' ', '_').lower()
clean_label(col) ==
    lower(replace(replace(strip(col), <<" ", "-", " ">>, <<"_">>), <<" ">>, <<"_">>))
clean_column_names(d) ==
    LET new == [k \in 1..Len(d.columns) |-> clean_label(d.columns[k])]
        old(c) == d.columns[CHOOSE k \in 1..Len(new) : new[k] = c]
        labels == {new[k] : k \in 1..Len(new)}
    IN Table(new, [c \in labels |-> d.dtypes[old(c)]],
             [i \in 1..Len(d.rows) |-> [c \in labels |-> d.rows[i][old(c)]]])

\* Timestamps: the years pandas can represent in full.
MinYear == 1678
MaxYear == 2261

IsLeap(y) == y % 4 = 0 /\ (y % 100 # 0 \/ y % 400 = 0)
DaysInMonth(y, m) ==
    IF m = 2 THEN (IF IsLeap(y) THEN 29 ELSE 28)
    ELSE IF m \in {4, 6, 9, 11} THEN 30 ELSE 31
RECURSIVE DaysBeforeMonth(_, _)
DaysBeforeMonth(y, m) == IF m = 1 THEN 0
                         ELSE DaysBeforeMonth(y, m - 1) + DaysInMonth(y, m - 1)
\* date.toordinal(): day 1 is 0001-01-01.
Ordinal(y, m, d) ==
    365 * (y - 1) + ((y - 1) \div 4) - ((y - 1) \div 100) + ((y - 1) \div 400)
    + DaysBeforeMonth(y, m) + d
\* Timestamp.dayofweek: Monday is 0.
dayofweek(t) == (Ordinal(t.year, t.month, t.day) + 6) % 7
IsoWeek1Monday(y) ==
    LET firstday == Ordinal(y, 1, 1)
        firstweekday == (firstday + 6) % 7
    IN firstday - firstweekday + (IF firstweekday > 3 THEN 7 ELSE 0)
\* Timestamp.isocalendar().week
isoweek(t) ==
    LET today == Ordinal(t.year, t.month, t.day)
        week == (today - IsoWeek1Monday(t.year)) \div 7
    IN IF week < 0 THEN ((today - IsoWeek1Monday(t.year - 1)) \div 7) + 1
       ELSE IF week >= 52 /\ today >= IsoWeek1Monday(t.year + 1) THEN 1
       ELSE week + 1

\* The day token of a date text: digits, or, where the parser takes it, the
\* rendering of a whole float ("15.0").  0 when it is neither.
day_of_text(text, float_day_accepted) ==
    IF IsDigits(text) /\ Len(text) <= 2 THEN NatOf(text)
    ELSE IF /\ float_day_accepted
            /\ Len(text) >= 3
            /\ SubSeq(text, Len(text) - 1, Len(text)) = <<".", "0">>
            /\ IsDigits(SubSeq(text, 1, Len(text) - 2))
            /\ Len(text) <= 4
    THEN NatOf(SubSeq(text, 1, Len(text) - 2))
    ELSE 0

\* to_datetime taking a day past the end of the month for the last day of
\* the month.
to_datetime_clamped(text, float_day_accepted) ==
    LET parts == split(text, "-")
    IN IF Len(parts) # 3 THEN Null
       ELSE LET months == {m \in 1..12 : lower(MonthNames[m]) = lower(parts[2])}
                day == day_of_text(parts[3], float_day_accepted)
            IN IF ~(IsDigits(parts[1]) /\ Len(parts[1]) = 4) \/ months = {} THEN Null
               ELSE LET y == NatOf(parts[1])
                        m == CHOOSE k \in months : TRUE
                    IN IF y < MinYear \/ y > MaxYear \/ day < 1 THEN Null
                       ELSE Some([year |-> y, month |-> m,
                                  day |-> Min(day, DaysInMonth(y, m))])

\* pd.to_datetime(text, errors='coerce') on a "year-month-day" text with the
\* month written as a name: NaT unless the three tokens give a calendar date.
\* Whether a day that astype(str) rendered from a float column is taken
\* depends on the versions of pandas and dateutil at hand.
to_datetime(text, float_day_accepted) ==
    LET parts == split(text, "-")
    IN IF Len(parts) # 3 THEN Null
       ELSE LET months == {m \in 1..12 : lower(MonthNames[m]) = lower(parts[2])}
                day == day_of_text(parts[3], float_day_accepted)
            IN IF ~(IsDigits(parts[1]) /\ Len(parts[1]) = 4) \/ months = {} THEN Null
               ELSE LET y == NatOf(parts[1])
                        m == CHOOSE k \in months : TRUE
                    IN IF y < MinYear \/ y > MaxYear \/ day < 1 \/ day > DaysInMonth(y, m)
                       THEN Null
                       ELSE Some([year |-> y, month |-> m, day |-> day])

\* Series.dt.strftime('%Y-%m-%d')
strftime(t) ==
    IF t = Null THEN NaNCell
    ELSE StrCell(Padded(Val(t).year, 4) \o <<"-">> \o Padded(Val(t).month, 2)
                 \o <<"-">> \o Padded(Val(t).day, 2))
day_name(t) == IF t = Null THEN NaNCell ELSE StrCell(DayNames[dayofweek(Val(t)) + 1])
week_number(t) == IF t = Null THEN NaNCell ELSE IntCell(isoweek(Val(t)))
is_weekend(t) == BoolCell(t # Null /\ dayofweek(Val(t)) \in {5, 6})

\* parse_dates
parse_dates(d, float_day_accepted) ==
    IF ~({col_date_year, col_date_month, col_date_day} \subseteq Labels(d))
    THEN Failed("KeyError", d)
    ELSE LET date_combined(i) ==
                 astype_str(d.rows[i][col_date_year]) \o <<"-">>
                 \o astype_str(d.rows[i][col_date_month]) \o <<"-">>
                 \o astype_str(d.rows[i][col_date_day])
             parsed_dates == [i \in 1..Len(d.rows) |->
                                to_datetime(date_combined(i), float_day_accepted)]
             d1 == Assign(d, col_date, "object",
                          [i \in 1..Len(d.rows) |-> strftime(parsed_dates[i])])
             d2 == Assign(d1, col_weekday, "object",
                          [i \in 1..Len(d.rows) |-> day_name(parsed_dates[i])])
             d3 == Assign(d2, col_week_number, "Int64",
                          [i \in 1..Len(d.rows) |-> week_number(parsed_dates[i])])
         IN Done(Assign(d3, col_is_weekend, "bool",
                        [i \in 1..Len(d.rows) |-> is_weekend(parsed_dates[i])]))

\* Arithmetic on cells: NaN in, NaN out; inf - inf and 0 / 0 are NaN.
Arith(n, d) == IF n = 0 /\ d = 0 THEN NaNCell ELSE FloatCell(Rat(n, d))
add(a, b) ==
    IF ~IsNumber(a) \/ ~IsNumber(b) THEN NaNCell
    ELSE LET x == Number(a)
             y == Number(b)
         IN IF x[2] = 0 /\ y[2] = 0 THEN (IF x = y THEN FloatCell(x) ELSE NaNCell)
            ELSE LET common == GCD(x[2], y[2])
                 IN Arith(x[1] * (y[2] \div common) + y[1] * (x[2] \div common),
                          (x[2] \div common) * y[2])
mul(a, b) ==
    IF ~IsNumber(a) \/ ~IsNumber(b) THEN NaNCell
    ELSE Arith(Number(a)[1] * Number(b)[1], Number(a)[2] * Number(b)[2])
div(a, b) ==
    IF ~IsNumber(a) \/ ~IsNumber(b) THEN NaNCell
    ELSE Arith(Number(a)[1] * Number(b)[2], Number(a)[2] * Number(b)[1])
Const(n, d) == FloatCell(Rat(n, d))

\* One value of a percentage column: astype(str), rstrip('%'), '' to NaN,
\* astype(float).  Invalid where float() raises ValueError.
percent_value_text(cell) ==
    LET text == rstrip(astype_str(cell), {"%"})
    IN IF text = <<>> THEN NaNCell ELSE StrCell(text)
percent_value(cell) ==
    LET text == rstrip(astype_str(cell), {"%"})
    IN IF text = <<>> THEN NaNCell ELSE float_of(text)

\* The loop of clean_percentages: a column is assigned once all of its
\* values are converted; the first value that is not a number ends the loop.
RECURSIVE clean_percentage_cols(_, _)
clean_percentage_cols(d, cols) ==
    IF cols = <<>> THEN Done(d)
    ELSE LET values == [i \in 1..Len(d.rows) |-> percent_value(d.rows[i][Head(cols)])]
         IN IF \E i \in 1..Len(d.rows) : values[i] = Invalid
            THEN Failed("ValueError", d)
            ELSE clean_percentage_cols(Assign(d, Head(cols), "float64", values), Tail(cols))

\* '%' in self.df[col].astype(str).str.cat()
has_percent(d, col) == \E i \in 1..Len(d.rows) : Contains(astype_str(d.rows[i][col]), "%")

clean_percentages(d) ==
    clean_percentage_cols(d, SelectSeq(d.columns, LAMBDA col : has_percent(d, col)))

\* pd.to_numeric(errors='coerce') on a column: text that is no number is NaN;
\* the result is int64 when every value is a whole number, float64 otherwise.
\* errors='coerce': what cannot be parsed becomes NaN.
coerce(value) == IF value = Invalid THEN NaNCell ELSE value
to_numeric(d, col) ==
    IF d.dtypes[col] # "object" THEN d
    ELSE LET parsed == [i \in 1..Len(d.rows) |->
                          LET cell == d.rows[i][col]
                          IN IF cell.type # "str" THEN NaNCell
                             ELSE coerce(float_of(cell.value))]
             whole == \A i \in 1..Len(d.rows) :
                         /\ d.rows[i][col].type = "str"
                         /\ IsIntText(strip(d.rows[i][col].value))
         IN IF whole
            THEN Assign(d, col, "int64",
                        [i \in 1..Len(d.rows) |-> IntCell(parsed[i].value[1])])
            ELSE Assign(d, col, "float64", parsed)

\* Series.astype('Int64'): whole numbers and missing values only.
CastsToInt64(cell) ==
    \/ cell.type \in {"int", "nan"}
    \/ cell.type = "float" /\ IsIntegral(cell.value)
astype_Int64(d, col) ==
    IF \A i \in 1..Len(d.rows) : CastsToInt64(d.rows[i][col])
    THEN Done(Assign(d, col, "Int64",
                     [i \in 1..Len(d.rows) |->
                        IF IsNumber(d.rows[i][col])
                        THEN IntCell(Number(d.rows[i][col])[1]) ELSE NaNCell]))
    ELSE Failed(IF \E i \in 1..Len(d.rows) : d.rows[i][col].type = "str"
                THEN "ValueError" ELSE "TypeError", d)

numeric_cols ==
    <<col_talk, col_hold, col_acw, col_aht, col_paperless_conversion,
      col_homeserve_transfers, col_allconnect_xfer_match_combo,
      col_osat_with_agent, col_resolution_rate, col_talk_available_pct,
      col_off_phone_pct, col_conformance>>

RECURSIVE to_numeric_cols(_, _)
to_numeric_cols(d, cols) ==
    IF cols = <<>> THEN d
    ELSE to_numeric_cols(IF Head(cols) \in Labels(d) THEN to_numeric(d, Head(cols)) ELSE d,
                         Tail(cols))

\* The next statement of a method runs on the frame the last one left, unless
\* that one raised.
Then(result, Statement(_)) == IF result.raised # "" THEN result ELSE Statement(result.df)
\* An assignment whose right-hand side raises leaves the frame as it was.
Unassigned(result, d) == IF result.raised # "" THEN Failed(result.raised, d) ELSE result

\* fix_data_types, statement by statement; a cast that raises leaves the
\* columns converted before it.
fix_interaction_count(d) ==
    IF col_interaction_count \notin Labels(d) THEN Done(d)
    ELSE Unassigned(astype_Int64(to_numeric(d, col_interaction_count),
                                 col_interaction_count), d)
fix_numeric_cols(d) == Done(to_numeric_cols(d, numeric_cols))
fix_date_year(d) ==
    IF col_date_year \in Labels(d) THEN astype_Int64(d, col_date_year) ELSE Done(d)
fix_date_day(d) ==
    IF col_date_day \in Labels(d) THEN astype_Int64(d, col_date_day) ELSE Done(d)
fix_data_types(d) ==
    Then(Then(Then(fix_interaction_count(d), fix_numeric_cols), fix_date_year),
         fix_date_day)

\* df.isnull().sum(), kept for the columns where it is positive.
missing_values(d) ==
    LET count(c) == Cardinality({i \in 1..Len(d.rows) : d.rows[i][c] = NaNCell})
    IN [c \in {l \in Labels(d) : count(l) > 0} |-> count(c)]

time_metrics == <<col_talk, col_hold, col_acw, col_aht>>

\* Series.fillna(0)
fillna0(d, col) ==
    Assign(d, col, d.dtypes[col],
           [i \in 1..Len(d.rows) |->
              IF d.rows[i][col] = NaNCell
              THEN (IF d.dtypes[col] \in {"int64", "Int64"} THEN IntCell(0) ELSE Const(0, 1))
              ELSE d.rows[i][col]])
RECURSIVE fillna0_cols(_, _)
fillna0_cols(d, cols) ==
    IF cols = <<>> THEN d
    ELSE fillna0_cols(IF Head(cols) \in Labels(d) THEN fillna0(d, Head(cols)) ELSE d,
                      Tail(cols))

\* handle_missing_values filling every column that holds a null.
handle_missing_values_all(d) ==
    LET filled == fillna0_cols(d, d.columns)
    IN [df |-> filled,
        missing_values_before |-> missing_values(d),
        missing_values_after |-> missing_values(filled)]

\* handle_missing_values: the frame and the two report entries.
handle_missing_values(d) ==
    LET filled == fillna0_cols(d, time_metrics)
    IN [df |-> filled,
        missing_values_before |-> missing_values(d),
        missing_values_after |-> missing_values(filled)]

\* The two derivations of add_calculated_metrics.
performance_score(ta, rr, cf) ==
    add(add(mul(ta, Const(3, 10)), mul(rr, Const(4, 10))), mul(cf, Const(3, 10)))

IsPositive(cell) == IsNumber(cell) /\ RatLess(RatOfInt(0), Number(cell))
IsBelowInf(cell) == IsNumber(cell) /\ RatLess(Number(cell), PosInf)
\* calls_per_hour without the test of the handle time.
calls_per_hour_unguarded(aht) == div(Const(3600, 1), aht)
\* calls_per_hour leaving null where the handle time fails the test.
calls_per_hour_or_null(aht) ==
    IF IsPositive(aht) /\ IsBelowInf(aht) THEN div(Const(3600, 1), aht) ELSE NaNCell
calls_per_hour(aht) ==
    IF IsPositive(aht) /\ IsBelowInf(aht) THEN div(Const(3600, 1), aht) ELSE Const(0, 1)

score_columns == <<col_talk_available_pct, col_resolution_rate, col_conformance>>

\* add_calculated_metrics with its two column tests as parameters.
add_calculated_metrics_when(d, score_test, rate_test) ==
    LET scored ==
            IF score_test
            THEN Assign(d, col_performance_score, "float64",
                        [i \in 1..Len(d.rows) |->
                           performance_score(d.rows[i][col_talk_available_pct],
                                             d.rows[i][col_resolution_rate],
                                             d.rows[i][col_conformance])])
            ELSE d
    IN IF rate_test
       THEN Assign(scored, col_calls_per_hour, "float64",
                   [i \in 1..Len(d.rows) |-> calls_per_hour(d.rows[i][col_aht])])
       ELSE scored

\* add_calculated_metrics creating a null performance_score when a source
\* column is absent.
add_calculated_metrics_null_filled(d) ==
    LET present == \A k \in 1..Len(score_columns) : score_columns[k] \in Labels(d)
        made == add_calculated_metrics_when(
                    d, present, col_interaction_count \in Labels(d) /\ col_aht \in Labels(d))
    IN IF present THEN made
       ELSE Assign(made, col_performance_score, "float64",
                   [i \in 1..Len(d.rows) |-> NaNCell])

add_calculated_metrics(d) ==
    add_calculated_metrics_when(
        d,
        \A k \in 1..Len(score_columns) : score_columns[k] \in Labels(d),
        col_interaction_count \in Labels(d) /\ col_aht \in Labels(d))

\* A value parse_name returned, as a cell.
name_cell(part) == IF part = Null THEN NaNCell ELSE StrCell(Val(part))

name_labels == <<col_agent_last_name, col_agent_first_name, col_agent_middle_initial>>

\* parse_agent_names on a frame: parse_name on every row, and the three
\* columns it gives put beside the others; nothing when the column is missing.
concat_name_columns(d) ==
    IF col_manager_hierarchy_name \notin Labels(d) THEN d
    ELSE LET parsed == [i \in 1..Len(d.rows) |->
                          parse_name(d.rows[i][col_manager_hierarchy_name]).series]
             d1 == Assign(d, name_labels[1], "object",
                          [i \in 1..Len(d.rows) |-> name_cell(parsed[i][1])])
             d2 == Assign(d1, name_labels[2], "object",
                          [i \in 1..Len(d.rows) |-> name_cell(parsed[i][2])])
         IN Assign(d2, name_labels[3], "object",
                   [i \in 1..Len(d.rows) |-> name_cell(parsed[i][3])])

\* duplicated(subset, keep=False): the rows that share the subset with any
\* other row.
duplicated_keep_none(d, subset) ==
    Cardinality({i \in 1..Len(d.rows) :
                    \E j \in 1..Len(d.rows) :
                        /\ j # i
                        /\ \A k \in 1..Len(subset) :
                              d.rows[j][subset[k]] = d.rows[i][subset[k]]})
\* DataFrame.duplicated(subset).sum(): the rows that repeat the subset of an
\* earlier row, missing values counting as equal.
duplicated(d, subset) ==
    Cardinality({i \in 1..Len(d.rows) :
                    \E j \in 1..(i - 1) :
                        \A k \in 1..Len(subset) : d.rows[j][subset[k]] = d.rows[i][subset[k]]})

\* Series.min, max and mean of a column, missing values skipped.
RECURSIVE SumCells(_)
SumCells(cells) == IF cells = <<>> THEN Const(0, 1) ELSE add(Head(cells), SumCells(Tail(cells)))
series_range(cells) ==
    LET known == SelectSeq(cells, IsNumber)
        least == CHOOSE i \in 1..Len(known) :
                     \A j \in 1..Len(known) : ~RatLess(Number(known[j]), Number(known[i]))
        most == CHOOSE i \in 1..Len(known) :
                    \A j \in 1..Len(known) : ~RatLess(Number(known[i]), Number(known[j]))
    IN IF known = <<>> THEN [min |-> NaNCell, max |-> NaNCell, mean |-> NaNCell]
       ELSE [min |-> known[least], max |-> known[most],
             mean |-> div(SumCells(known), Const(Len(known), 1))]

\* validate_data: the entries it writes into the report; the frame is only read.
validate_data(d) ==
    IF ~({col_manager_hierarchy_name, col_date} \subseteq Labels(d))
    THEN [raised |-> "KeyError", entries |-> <<>>]
    ELSE [raised |-> "",
          entries |->
             [duplicate_rows |-> duplicated(d, <<col_manager_hierarchy_name, col_date>>),
              column_types |-> d.dtypes,
              aht_range |-> IF col_aht \in Labels(d) THEN series_range(Cells(d, col_aht))
                            ELSE Absent]]

\* The raw exports the pipeline is run on.  A row is the default row with
\* the fields of one column group replaced.
RawHeader ==
    <<raw_date_year, raw_date_month, raw_date_day, raw_name, raw_talk_available,
      raw_resolution_rate, raw_conformance, raw_aht, raw_talk, raw_interaction_count>>
DefaultRow ==
    [c \in {RawHeader[k] : k \in 1..Len(RawHeader)} |->
        CASE c = raw_date_year -> <<"2", "0", "2", "4">>
          [] c = raw_date_month -> <<"J", "a", "n", "u", "a", "r", "y">>
          [] c = raw_date_day -> <<"1", "5">>
          [] c = raw_name -> <<"a", ",", "b">>
          [] c = raw_talk_available -> <<"8", "5", "%">>
          [] c = raw_resolution_rate -> <<"8", "0">>
          [] c = raw_conformance -> <<"7", "0">>
          [] c = raw_aht -> <<"3", "0", "0">>
          [] c = raw_talk -> <<"1", "0", "0">>
          [] c = raw_interaction_count -> <<"7">>]
With(row, label, text) == [row EXCEPT ![label] = text]

\* Days and months out of range, years that are no whole number, blanks.
DateRows ==
    {With(DefaultRow, raw_date_day, <<"3", "2">>),
     With(DefaultRow, raw_date_month, <<"F", "o", "o">>),
     With(DefaultRow, raw_date_year, <<>>),
     With(DefaultRow, raw_date_year, <<"a", "b", "c">>),
     With(DefaultRow, raw_date_year, <<"2", "0", "2", "4", ".", "5">>),
     With(DefaultRow, raw_date_day, <<>>),
     With(With(DefaultRow, raw_date_month, <<"F", "e", "b", "r", "u", "a", "r", "y">>), raw_date_day, <<"3", "0">>)}

\* Percentages with and without the sign, text, a sign inside, blanks.
PercentRows ==
    {With(DefaultRow, raw_talk_available, <<"a", "b", "c">>),
     With(DefaultRow, raw_talk_available, <<"5", "%", "0">>),
     With(DefaultRow, raw_talk_available, <<>>),
     With(DefaultRow, raw_talk_available, <<"9", "0">>),
     With(DefaultRow, raw_talk_available, <<"%">>)}

\* Handle times of every sign, text for a count, a second agent.
MetricRows ==
    {With(DefaultRow, raw_aht, <<"0">>),
     With(DefaultRow, raw_aht, <<"-", "5">>),
     With(DefaultRow, raw_aht, <<>>),
     With(DefaultRow, raw_aht, <<"i", "n", "f">>),
     With(DefaultRow, raw_interaction_count, <<"x">>),
     With(DefaultRow, raw_name, <<"c", ",", "d">>)}

RawRows == {DefaultRow} \cup DateRows \cup PercentRows \cup MetricRows
\* The rows of the exports that lack a column.
FewRows == {DefaultRow, With(DefaultRow, raw_aht, <<"0">>),
            With(DefaultRow, raw_talk_available, <<>>)}
Droppable == {raw_talk_available, raw_resolution_rate, raw_conformance, raw_aht,
              raw_talk, raw_interaction_count}

Without(header, label) == SelectSeq(header, LAMBDA c : c # label)
Restrict(row, header) == [c \in {header[k] : k \in 1..Len(header)} |-> row[c]]
RawFiles ==
    {Frame(RawHeader, rows) : rows \in UNION {[1..n -> RawRows] : n \in 0..MaxCleanRows}}
    \cup {Frame(Without(RawHeader, c), [i \in 1..Len(rows) |->
                                          Restrict(rows[i], Without(RawHeader, c))]) :
             c \in Droppable, rows \in UNION {[1..n -> FewRows] : n \in 1..MaxCleanRows}}

\* run_pipeline: the stages in the order it chains them.
Stages == <<"load_data", "clean_column_names", "parse_dates", "clean_percentages",
            "fix_data_types", "handle_missing_values", "add_calculated_metrics",
            "parse_agent_names", "validate_data", "save_cleaned_data">>
StageAfter(stage) == Stages[IndexOf(Stages, stage) + 1]
At(stage) == pc.stage = stage /\ pc.raised = ""
\* The stage has run and returned.
Past(stage) == IndexOf(Stages, pc.stage) > IndexOf(Stages, stage)
\* A stage returned the frame, or raised and left the frame it had reached.
Proceed(result) ==
    /\ clean_df' = result.df
    /\ pc' = IF result.raised = "" THEN [pc EXCEPT !.stage = StageAfter(pc.stage)]
             ELSE [pc EXCEPT !.raised = result.raised]

notCleanVars == <<semVars, rankVars, matchVars, nameVars, renameVars, eventVars>>

EmptyReport == [missing_values_before |-> Absent, missing_values_after |-> Absent,
                duplicate_rows |-> Absent, column_types |-> Absent, aht_range |-> Absent]

InitClean ==
    /\ csv \in RawFiles
    /\ clean_df = Null
    /\ data_quality_report = EmptyReport
    /\ pc = [stage |-> "load_data", raised |-> ""]
    /\ IdleSem /\ IdleRank /\ IdleMatch /\ IdleName /\ IdleRename /\ IdleEvents

LoadData ==
    /\ At("load_data")
    /\ Proceed(Done(read_csv(csv)))
    /\ UNCHANGED <<csv, data_quality_report, notCleanVars>>

CleanColumnNames ==
    /\ At("clean_column_names")
    /\ Proceed(Done(clean_column_names(clean_df)))
    /\ UNCHANGED <<csv, data_quality_report, notCleanVars>>

ParseDates ==
    /\ At("parse_dates")
    /\ \E float_day_accepted \in BOOLEAN :
          Proceed(parse_dates(clean_df, float_day_accepted))
    /\ UNCHANGED <<csv, data_quality_report, notCleanVars>>

CleanPercentages ==
    /\ At("clean_percentages")
    /\ Proceed(clean_percentages(clean_df))
    /\ UNCHANGED <<csv, data_quality_report, notCleanVars>>

FixDataTypes ==
    /\ At("fix_data_types")
    /\ Proceed(fix_data_types(clean_df))
    /\ UNCHANGED <<csv, data_quality_report, notCleanVars>>

HandleMissingValues ==
    /\ At("handle_missing_values")
    /\ LET result == handle_missing_values(clean_df)
       IN /\ Proceed(Done(result.df))
          /\ data_quality_report' =
                [data_quality_report EXCEPT
                    !.missing_values_before = result.missing_values_before,
                    !.missing_values_after = result.missing_values_after]
    /\ UNCHANGED <<csv, notCleanVars>>

AddCalculatedMetrics ==
    /\ At("add_calculated_metrics")
    /\ Proceed(Done(add_calculated_metrics(clean_df)))
    /\ UNCHANGED <<csv, data_quality_report, notCleanVars>>

ParseAgentNamesStage ==
    /\ At("parse_agent_names")
    /\ Proceed(Done(concat_name_columns(clean_df)))
    /\ UNCHANGED <<csv, data_quality_report, notCleanVars>>

ValidateData ==
    /\ At("validate_data")
    /\ LET result == validate_data(clean_df)
       IN /\ Proceed([raised |-> result.raised, df |-> clean_df])
          /\ data_quality_report' =
                IF result.raised # "" THEN data_quality_report
                ELSE [data_quality_report EXCEPT
                         !.duplicate_rows = result.entries.duplicate_rows,
                         !.column_types = result.entries.column_types,
                         !.aht_range = result.entries.aht_range]
    /\ UNCHANGED <<csv, notCleanVars>>

NextClean ==
    \/ LoadData
    \/ CleanColumnNames
    \/ ParseDates
    \/ CleanPercentages
    \/ FixDataTypes
    \/ HandleMissingValues
    \/ AddCalculatedMetrics
    \/ ParseAgentNamesStage
    \/ ValidateData

SpecClean == InitClean /\ [][NextClean]_vars

\* The calendar, for reading a raw row: the lengths of the months.
MonthLengths == <<31, 28, 31, 30, 31, 30, 31, 31, 30, 31, 30, 31>>
\* The three date fields of a raw row are a year, a month name and a day of
\* that month.
RawValidDate(row) ==
    LET y == row[raw_date_year]
        d == row[raw_date_day]
    IN /\ IsDigits(y) /\ IsDigits(d)
       /\ \E m \in 1..12 :
             /\ MonthNames[m] = row[raw_date_month]
             /\ NatOf(d) >= 1
             /\ NatOf(d) <= MonthLengths[m]
                            + (IF m = 2 /\ NatOf(y) % 4 = 0
                                  /\ (NatOf(y) % 100 # 0 \/ NatOf(y) % 400 = 0)
                               THEN 1 ELSE 0)

Finished == pc.stage = "save_cleaned_data"

\* C11: from load_data on the frame has as many rows as the export, and once
\* parse_dates has run, every row whose three date fields are no calendar
\* date has a null date.
C11_RowsRetainedDateNull ==
    /\ Past("load_data") => Len(clean_df.rows) = Len(csv.rows)
    /\ Past("parse_dates") =>
          \A i \in 1..Len(csv.rows) :
              ~RawValidDate(csv.rows[i]) => clean_df.rows[i][col_date] = NaNCell

\* The pipeline has finished on an export with a 30th of February beside a
\* row with a date.
C11_Witness ==
    /\ Finished
    /\ \E i, j \in 1..Len(csv.rows) :
          /\ csv.rows[i][raw_date_month] = MonthNames[2]
          /\ csv.rows[i][raw_date_day] = <<"3", "0">>
          /\ clean_df.rows[i][col_date] = NaNCell
          /\ clean_df.rows[j][col_date] = StrCell(<<"2", "0", "2", "4", "-", "0", "1",
                                                   "-", "1", "5">>)

\* A cell is text with a '%' in it.
HasPercentSign(cell) == cell.type = "str" /\ \E k \in 1..Len(cell.value) : cell.value[k] = "%"
\* A cell is text made of '%' only.
OnlyPercentSigns(cell) ==
    cell.type = "str" /\ \A k \in 1..Len(cell.value) : cell.value[k] = "%"

\* C12: when clean_percentages returns, every column that held a value with
\* a '%' holds numbers and nulls only; an empty entry is null, and a null is
\* an entry that was empty or had nothing but the sign.
C12_PercentColumnsNumeric ==
    [][(At("clean_percentages") /\ pc'.raised = "" /\ pc'.stage # pc.stage) =>
          \A col \in Labels(clean_df) :
              (\E i \in 1..Len(clean_df.rows) : HasPercentSign(clean_df.rows[i][col])) =>
                  \A i \in 1..Len(clean_df.rows) :
                      LET before == clean_df.rows[i][col]
                          after == clean_df'.rows[i][col]
                      IN /\ after.type \in {"float", "nan"}
                         /\ before = NaNCell => after = NaNCell
                         /\ after = NaNCell => (before = NaNCell \/ OnlyPercentSigns(before))
                         /\ (before.type = "str" /\ IsDigits(rstrip(before.value, {"%"})))
                               => after = FloatCell(<<NatOf(rstrip(before.value, {"%"})), 1>>)]_vars

\* A column with "85%" in one row and an empty entry in another is 85 and null.
C12_Witness ==
    /\ Past("clean_percentages")
    /\ csv.columns = RawHeader
    /\ \E i, j \in 1..Len(csv.rows) :
          /\ csv.rows[i][raw_talk_available] = <<"8", "5", "%">>
          /\ csv.rows[j][raw_talk_available] = <<>>
          /\ clean_df.rows[i][col_talk_available_pct] = FloatCell(<<85, 1>>)
          /\ clean_df.rows[j][col_talk_available_pct] = NaNCell

\* C13: no stage of the pipeline raises, whatever the fields of the export.
C13_MalformedFieldNeverAborts == pc.raised = ""

\* The four duration columns.
DurationColumns == {col_talk, col_hold, col_acw, col_aht}

\* C14: handle_missing_values keeps the columns and the rows, turns a null
\* of talk, hold, acw and aht into 0 and changes no other cell.
C14_FillsDurationsOnly ==
    [][At("handle_missing_values") =>
          /\ clean_df'.columns = clean_df.columns
          /\ Len(clean_df'.rows) = Len(clean_df.rows)
          /\ \A i \in 1..Len(clean_df.rows) : \A c \in Labels(clean_df) :
                LET before == clean_df.rows[i][c]
                    after == clean_df'.rows[i][c]
                IN IF before # NaNCell THEN after = before
                   ELSE IF c \in DurationColumns
                   THEN IsNumber(after) /\ Number(after) = <<0, 1>>
                   ELSE after = NaNCell]_vars

\* An empty handle time has become 0 and an empty percentage is still null.
C14_Witness ==
    /\ Past("handle_missing_values")
    /\ csv.columns = RawHeader
    /\ \E i, j \in 1..Len(csv.rows) :
          /\ csv.rows[i][raw_aht] = <<>>
          /\ clean_df.rows[i][col_aht] = Const(0, 1)
          /\ csv.rows[j][raw_talk_available] = <<>>
          /\ clean_df.rows[j][col_talk_available_pct] = NaNCell

\* The (manager_hierarchy_name, date) pairs of the frame.
IdentityDatePairs ==
    {<<clean_df.rows[i][col_manager_hierarchy_name], clean_df.rows[i][col_date]>> :
        i \in 1..Len(clean_df.rows)}

\* C15: validate_data leaves the frame as it is, rows that share a
\* (manager_hierarchy_name, date) pair included, and reports as
\* duplicate_rows the rows in excess of the distinct pairs.
C15_DuplicatesCountedNotRemoved ==
    /\ [](Past("validate_data") =>
             /\ Len(clean_df.rows) = Len(csv.rows)
             /\ data_quality_report.duplicate_rows
                   = Len(clean_df.rows) - Cardinality(IdentityDatePairs))
    /\ [][At("validate_data") => clean_df' = clean_df]_vars

\* Two rows of the same agent and day went through: one is reported, both
\* are still there.
C15_Witness ==
    /\ Past("validate_data")
    /\ Len(clean_df.rows) = 2
    /\ clean_df.rows[1][col_date] # NaNCell
    /\ Cardinality(IdentityDatePairs) = 1
    /\ data_quality_report.duplicate_rows = 1

\* The columns the performance score is derived from.
ScoreSources == {col_talk_available_pct, col_resolution_rate, col_conformance}

\* C16: after add_calculated_metrics there is a performance_score column
\* exactly when the three source columns exist, and then each row's score is
\* 0.3 talk_available_% + 0.4 resolution_rate + 0.3 conformance, null when
\* one of the three is null.
C16_PerformanceScore ==
    Past("add_calculated_metrics") =>
        /\ col_performance_score \in Labels(clean_df) <=> ScoreSources \subseteq Labels(clean_df)
        /\ col_performance_score \in Labels(clean_df) =>
              \A i \in 1..Len(clean_df.rows) :
                  LET row == clean_df.rows[i]
                      score == row[col_performance_score]
                  IN IF \E c \in ScoreSources : ~IsNumber(row[c]) THEN score = NaNCell
                     ELSE LET t == Number(row[col_talk_available_pct])
                              r == Number(row[col_resolution_rate])
                              c == Number(row[col_conformance])
                          IN /\ IsNumber(score)
                             /\ 10 * Number(score)[1] * t[2] * r[2] * c[2]
                                   = Number(score)[2] * (3 * t[1] * r[2] * c[2]
                                                         + 4 * r[1] * t[2] * c[2]
                                                         + 3 * c[1] * t[2] * r[2])

\* 85, 80 and 70 have given 78.5.
C16_Witness ==
    /\ Past("add_calculated_metrics")
    /\ col_performance_score \in Labels(clean_df)
    /\ \E i \in 1..Len(clean_df.rows) :
          /\ clean_df.rows[i][col_talk_available_pct] = FloatCell(<<85, 1>>)
          /\ clean_df.rows[i][col_performance_score] = FloatCell(<<157, 2>>)

\* The calls_per_hour of every row is 3600 / aht for a positive finite aht
\* and 0 otherwise.
CallsPerHourDerived ==
    \A i \in 1..Len(clean_df.rows) :
        LET aht == clean_df.rows[i][col_aht]
            rate == clean_df.rows[i][col_calls_per_hour]
        IN /\ IsNumber(rate)
           /\ IF IsNumber(aht) /\ Number(aht)[1] > 0 /\ Number(aht)[2] > 0
              THEN Number(rate)[1] * Number(aht)[1] = 3600 * Number(rate)[2] * Number(aht)[2]
              ELSE Number(rate) = <<0, 1>>

\* C17 as stated: after add_calculated_metrics a frame with an aht column has
\* a calls_per_hour column, derived row by row.
C17_AsStated ==
    (Past("add_calculated_metrics") /\ col_aht \in Labels(clean_df)) =>
        (col_calls_per_hour \in Labels(clean_df) /\ CallsPerHourDerived)

\* C17: after add_calculated_metrics there is a calls_per_hour column
\* exactly when the frame has both an aht and an interaction_count column,
\* and then it is derived row by row.
C17_CallsPerHour ==
    Past("add_calculated_metrics") =>
        /\ col_calls_per_hour \in Labels(clean_df)
              <=> {col_aht, col_interaction_count} \subseteq Labels(clean_df)
        /\ col_calls_per_hour \in Labels(clean_df) => CallsPerHourDerived

\* A handle time of 300 has given 12 calls per hour, and a handle time that
\* is zero, negative or infinite has given 0.
C17_Witness ==
    /\ Past("add_calculated_metrics")
    /\ col_calls_per_hour \in Labels(clean_df)
    /\ \E i, j \in 1..Len(clean_df.rows) :
          /\ clean_df.rows[i][col_aht] = IntCell(300)
          /\ clean_df.rows[i][col_calls_per_hour] = FloatCell(<<12, 1>>)
          /\ IsNumber(clean_df.rows[j][col_aht])
          /\ Number(clean_df.rows[j][col_aht]) # <<0, 1>>
          /\ ~(IsPositive(clean_df.rows[j][col_aht]) /\ IsBelowInf(clean_df.rows[j][col_aht]))
          /\ clean_df.rows[j][col_calls_per_hour] = FloatCell(<<0, 1>>)

(***************************************************************************)
(* SemanticTransformer.define_column_mapping and apply_column_renaming     *)
(***************************************************************************)
MaxRenameCols == 3
MaxRenameRows == 1
MaxRenamings == 2

\* The dict literal of define_column_mapping, in its order: <<cleaned name,
\* semantic name>>.
COLUMN_MAPPING ==
    <<<<"manager_hierarchy_manager", "manager_name">>,
      <<"manager_hierarchy_location", "location">>,
      <<"manager_hierarchy_supervisor", "supervisor_name">>,
      <<"manager_hierarchy_name", "agent_name">>,
      <<"date_year", "performance_year">>,
      <<"date_month", "performance_month">>,
      <<"date_day", "performance_day">>,
      <<"date", "performance_date">>,
      <<"weekday", "day_of_week">>,
      <<"week_number", "week_of_year">>,
      <<"is_weekend", "is_weekend_day">>,
      <<"talk", "talk_time_seconds">>,
      <<"hold", "hold_time_seconds">>,
      <<"acw", "after_call_work_seconds">>,
      <<"aht", "average_handle_time_seconds">>,
      <<"interaction_count", "total_interactions">>,
      <<"osat_with_agent", "customer_satisfaction_score">>,
      <<"resolution_rate", "first_call_resolution_rate">>,
      <<"conformance", "schedule_adherence_rate">>,
      <<"talk_available_%", "talk_time_availability_pct">>,
      <<"off_phone_%", "off_phone_time_pct">>,
      <<"paperless_conversion", "paperless_conversion_rate">>,
      <<"homeserve_transfers", "homeserve_transfer_count">>,
      <<"allconnect_xfer/match_combo", "allconnect_transfer_count">>,
      <<"performance_score", "overall_performance_score">>,
      <<"calls_per_hour", "hourly_interaction_rate">>>>

\* dict lookups on a sequence of <<key, value>> pairs.
Keys(mapping) == {mapping[k][1] : k \in 1..Len(mapping)}
Lookup(mapping, key) == mapping[CHOOSE k \in 1..Len(mapping) : mapping[k][1] = key][2]

\* Here a frame is its labels in order and its rows, each row the cells in
\* the order of the labels.
define_column_mapping(log) ==
    [column_mapping |-> COLUMN_MAPPING,
     transformation_log |-> Append(log, <<"Column mappings", Len(COLUMN_MAPPING)>>)]

\* A renaming that leaves a column alone when its new label is taken.
rename_unless_taken(d, mapper) ==
    Frame([k \in 1..Len(d.columns) |->
             IF /\ d.columns[k] \in Keys(mapper)
                /\ \A j \in 1..Len(d.columns) : d.columns[j] # Lookup(mapper, d.columns[k])
             THEN Lookup(mapper, d.columns[k])
             ELSE d.columns[k]],
          d.rows)
\* DataFrame.rename(columns=mapper): a label that is a key takes its value.
rename(d, mapper) ==
    Frame([k \in 1..Len(d.columns) |->
             IF d.columns[k] \in Keys(mapper) THEN Lookup(mapper, d.columns[k])
             ELSE d.columns[k]],
          d.rows)

\* A renaming that keeps the mapped columns only.
apply_column_renaming_selecting(d, mapping, log) ==
    LET order == SelectSeq(Positions(Len(d.columns)),
                           LAMBDA k : d.columns[k] \in Keys(mapping))
    IN [df |-> Frame([k \in 1..Len(order) |-> Lookup(mapping, d.columns[order[k]])],
                     [i \in 1..Len(d.rows) |->
                        [k \in 1..Len(order) |-> d.rows[i][order[k]]]]),
        transformation_log |-> Append(log, <<"Columns renamed", Len(order)>>)]

apply_column_renaming(d, mapping, log) ==
    LET columns == {d.columns[j] : j \in 1..Len(d.columns)}
        existing_mappings == SelectSeq(mapping, LAMBDA pair : pair[1] \in columns)
        missing == SelectSeq(mapping, LAMBDA pair : pair[1] \notin columns)
        missing_columns == [k \in 1..Len(missing) |-> missing[k][1]]
        logged == IF missing_columns # <<>>
                  THEN Append(log, <<"Missing columns", missing_columns>>) ELSE log
    IN [df |-> rename(d, existing_mappings),
        transformation_log |-> Append(logged, <<"Columns renamed", Len(existing_mappings)>>)]

\* The cleaned frames given to the renaming: some columns of the table, a
\* column outside it, and a column that already bears a semantic name.
RenameLabelPool == <<"manager_hierarchy_location", "aht", "date", "performance_score",
                     "agent_first_name", "location">>
RenameCells == {Null, Some(1)}
RenameColumns ==
    {SelectSeq(RenameLabelPool, LAMBDA c : c \in chosen) :
        chosen \in {S \in SUBSET {RenameLabelPool[k] : k \in 1..Len(RenameLabelPool)} :
                       Cardinality(S) <= MaxRenameCols}}

InitRename ==
    /\ \E columns \in RenameColumns : \E n \in 0..MaxRenameRows :
          \E rows \in [1..n -> [1..Len(columns) -> RenameCells]] :
              sem_df = Frame(columns, rows)
    /\ column_mapping = <<>>
    /\ transformation_log = <<>>
    /\ IdleRank /\ IdleMatch /\ IdleName /\ IdleClean /\ IdleEvents

notRenameVars == <<rankVars, matchVars, nameVars, cleanVars, eventVars>>

\* The number of times apply_column_renaming has run.
Renamings == Len(SelectSeq(transformation_log, LAMBDA e : e[1] = "Columns renamed"))

DefineColumnMapping ==
    /\ column_mapping = <<>>
    /\ LET result == define_column_mapping(transformation_log)
       IN /\ column_mapping' = result.column_mapping
          /\ transformation_log' = result.transformation_log
    /\ UNCHANGED <<sem_df, notRenameVars>>

ApplyColumnRenaming ==
    /\ Renamings < MaxRenamings
    /\ LET result == apply_column_renaming(sem_df, column_mapping, transformation_log)
       IN /\ sem_df' = result.df
          /\ transformation_log' = result.transformation_log
    /\ UNCHANGED <<column_mapping, notRenameVars>>

NextRename ==
    \/ DefineColumnMapping
    \/ ApplyColumnRenaming

SpecRename == InitRename /\ [][NextRename]_vars

\* The labels of the frame that the table renames.
MappedHere(d) == {k \in 1..Len(d.columns) :
                     \E p \in 1..Len(column_mapping) : column_mapping[p][1] = d.columns[k]}
\* The keys of the table that the frame lacks.
AbsentHere(d) == {p \in 1..Len(column_mapping) :
                     \A k \in 1..Len(d.columns) : d.columns[k] # column_mapping[p][1]}

\* C18: a run of apply_column_renaming gives every column of the table its
\* semantic name, keeps every other label, the number of columns and every
\* row, and writes to the log the keys the frame lacks, if any, and the
\* number of columns renamed.
C18_PureProjection ==
    [][(transformation_log' # transformation_log /\ column_mapping' = column_mapping) =>
          /\ Len(sem_df'.columns) = Len(sem_df.columns)
          /\ sem_df'.rows = sem_df.rows
          /\ \A k \in 1..Len(sem_df.columns) :
                IF k \in MappedHere(sem_df)
                THEN \E p \in 1..Len(column_mapping) :
                        /\ column_mapping[p][1] = sem_df.columns[k]
                        /\ sem_df'.columns[k] = column_mapping[p][2]
                ELSE sem_df'.columns[k] = sem_df.columns[k]
          /\ LET added == SubSeq(transformation_log', Len(transformation_log) + 1,
                                 Len(transformation_log'))
             IN /\ added[Len(added)] = <<"Columns renamed", Cardinality(MappedHere(sem_df))>>
                /\ IF AbsentHere(sem_df) = {} THEN Len(added) = 1
                   ELSE /\ Len(added) = 2
                        /\ added[1][1] = "Missing columns"
                        /\ {added[1][2][j] : j \in 1..Len(added[1][2])}
                              = {column_mapping[p][1] : p \in AbsentHere(sem_df)}]_vars

\* aht has become average_handle_time_seconds beside agent_first_name, which
\* kept its label, in a frame with a row; the other keys were logged.
C18_Witness ==
    /\ Renamings = 1
    /\ column_mapping # <<>>
    /\ Len(sem_df.rows) = 1
    /\ \E j, k \in 1..Len(sem_df.columns) :
          /\ sem_df.columns[j] = "average_handle_time_seconds"
          /\ sem_df.columns[k] = "agent_first_name"
          /\ sem_df.rows[1][j] = Some(1)
    /\ \E e \in 1..Len(transformation_log) : transformation_log[e][1] = "Missing columns"

(***************************************************************************)
(* TopPerformerAnalyzer.calculate_agent_performance_summary                *)
(***************************************************************************)
MaxEvents == 2

\* DataFrame.round(decimals) on one cell: a float goes to the nearest
\* multiple of 10^-decimals, a tie to the even one; anything else is kept.
round(cell, decimals) ==
    IF cell.type # "float" \/ cell.value[2] = 0 THEN cell
    ELSE LET unit == GCD(Power10(decimals), cell.value[2])
             scaled == cell.value[1] * (Power10(decimals) \div unit)
             parts == cell.value[2] \div unit
             q == scaled \div parts
             twice == 2 * (scaled - q * parts)
             nearest == IF twice > parts \/ (twice = parts /\ q % 2 = 1)
                        THEN q + 1 ELSE q
         IN FloatCell(Rat(nearest, Power10(decimals)))

\* The order of two cells of one column: numbers by value, text as Python
\* orders strings.
CellLess(a, b) == IF a.type = "str" THEN StrLess(a.value, b.value)
                  ELSE RatLess(Number(a), Number(b))
Known(cells) == SelectSeq(cells, LAMBDA c : c # NaNCell)

\* The aggregations of a group: missing values are skipped.
agg_count(cells) == IntCell(Len(Known(cells)))
agg_min(cells) ==
    LET known == Known(cells)
    IN IF known = <<>> THEN NaNCell
       ELSE known[CHOOSE i \in 1..Len(known) :
                     /\ \A j \in 1..Len(known) : ~CellLess(known[j], known[i])
                     /\ \A j \in 1..(i - 1) : known[j] # known[i]]
agg_max(cells) ==
    LET known == Known(cells)
    IN IF known = <<>> THEN NaNCell
       ELSE known[CHOOSE i \in 1..Len(known) :
                     /\ \A j \in 1..Len(known) : ~CellLess(known[i], known[j])
                     /\ \A j \in 1..(i - 1) : known[j] # known[i]]
agg_sum(cells) == SumCells(Known(cells))
agg_mean(cells) ==
    IF Known(cells) = <<>> THEN NaNCell
    ELSE div(SumCells(Known(cells)), Const(Len(Known(cells)), 1))
aggregate(cells, func) ==
    CASE func = "count" -> agg_count(cells)
      [] func = "min" -> agg_min(cells)
      [] func = "max" -> agg_max(cells)
      [] func = "sum" -> agg_sum(cells)
      [] func = "mean" -> agg_mean(cells)

GROUP_KEYS == <<"agent_name", "agent_first_name", "agent_last_name">>

\* The dict given to agg, in its order, one entry per function: the column,
\* the function, and the label '_'.join((column, function)).
AGGREGATIONS ==
    << <<"performance_date", "count", "performance_date_count">>,
       <<"performance_date", "min", "performance_date_min">>,
       <<"performance_date", "max", "performance_date_max">>,
       <<"total_interactions", "sum", "total_interactions_sum">>,
       <<"total_interactions", "mean", "total_interactions_mean">>,
       <<"talk_time_goal_met", "mean", "talk_time_goal_met_mean">>,
       <<"hold_time_goal_met", "mean", "hold_time_goal_met_mean">>,
       <<"acw_goal_met", "mean", "acw_goal_met_mean">>,
       <<"aht_goal_met", "mean", "aht_goal_met_mean">>,
       <<"daily_goals_met_rate", "mean", "daily_goals_met_rate_mean">>,
       <<"all_time_goals_met", "mean", "all_time_goals_met_mean">>,
       <<"overall_performance_score", "mean", "overall_performance_score_mean">>,
       <<"hourly_interaction_rate", "mean", "hourly_interaction_rate_mean">>,
       <<"talk_time_seconds", "mean", "talk_time_seconds_mean">>,
       <<"hold_time_seconds", "mean", "hold_time_seconds_mean">>,
       <<"after_call_work_seconds", "mean", "after_call_work_seconds_mean">>,
       <<"average_handle_time_seconds", "mean", "average_handle_time_seconds_mean">>,
       <<"customer_satisfaction_score", "mean", "customer_satisfaction_score_mean">>,
       <<"first_call_resolution_rate", "mean", "first_call_resolution_rate_mean">>,
       <<"schedule_adherence_rate", "mean", "schedule_adherence_rate_mean">> >>

\* The column_mapping of calculate_agent_performance_summary.
SUMMARY_COLUMN_MAPPING ==
    << <<"performance_date_count", "days_worked">>,
       <<"performance_date_min", "first_performance_date">>,
       <<"performance_date_max", "last_performance_date">>,
       <<"total_interactions_sum", "total_interactions_period">>,
       <<"total_interactions_mean", "avg_daily_interactions">>,
       <<"daily_goals_met_rate_mean", "overall_goal_achievement_rate">>,
       <<"all_time_goals_met_mean", "perfect_days_rate">>,
       <<"overall_performance_score_mean", "avg_performance_score">>,
       <<"hourly_interaction_rate_mean", "avg_hourly_rate">> >>

\* The label of an aggregate after the renaming.
SummaryLabel(flat) ==
    IF flat \in Keys(SUMMARY_COLUMN_MAPPING) THEN Lookup(SUMMARY_COLUMN_MAPPING, flat)
    ELSE flat

\* The order of the groups: by the key tuples, component by component.
RECURSIVE TupleLess(_, _)
TupleLess(a, b) ==
    IF a = <<>> THEN FALSE
    ELSE IF Head(a) # Head(b) THEN StrLess(Head(a).value, Head(b).value)
    ELSE TupleLess(Tail(a), Tail(b))
RECURSIVE SortTuples(_)
SortTuples(tuples) ==
    IF tuples = {} THEN <<>>
    ELSE LET least == CHOOSE t \in tuples : \A o \in tuples : o = t \/ TupleLess(t, o)
         IN <<least>> \o SortTuples(tuples \ {least})

\* The columns calculate_agent_performance_summary reads from self.df.
SummarySources ==
    {GROUP_KEYS[k] : k \in 1..Len(GROUP_KEYS)}
    \cup {AGGREGATIONS[k][1] : k \in 1..Len(AGGREGATIONS)}

\* The columns of agent_stats, in their order.
SummaryHeader ==
    GROUP_KEYS \o [k \in 1..Len(AGGREGATIONS) |-> SummaryLabel(AGGREGATIONS[k][3])]
    \o <<"avg_interactions_per_day", "composite_performance_score">>

\* The weighted sum of the four terms, with every term at most 1.
composite_performance_score_clamped(goal, score, rate, aht) ==
    LET one == Const(1, 1)
        capped(x) == IF IsNumber(x) /\ RatLess(Number(one), Number(x)) THEN one ELSE x
    IN round(add(add(add(mul(capped(goal), Const(2, 5)),
                         mul(capped(div(score, Const(100, 1))), Const(3, 10))),
                     mul(capped(div(rate, Const(20, 1))), Const(1, 5))),
                 mul(capped(add(one, mul(div(aht, Const(600, 1)), Const(-1, 1)))),
                     Const(1, 10))), 4)
\* The weighted sum of the terms that are known.
composite_performance_score_skipna(goal, score, rate, aht) ==
    LET known(x) == IF x = NaNCell THEN Const(0, 1) ELSE x
    IN round(add(add(add(known(mul(goal, Const(2, 5))),
                         known(mul(div(score, Const(100, 1)), Const(3, 10)))),
                     known(mul(div(rate, Const(20, 1)), Const(1, 5)))),
                 known(mul(add(Const(1, 1), mul(div(aht, Const(600, 1)), Const(-1, 1))),
                           Const(1, 10)))), 4)
\* goal * 0.4 + (score / 100) * 0.3 + (rate / 20) * 0.2 + (1 - aht / 600) * 0.1,
\* rounded to 4 decimals.
composite_performance_score(goal, score, rate, aht) ==
    round(add(add(add(mul(goal, Const(2, 5)),
                      mul(div(score, Const(100, 1)), Const(3, 10))),
                  mul(div(rate, Const(20, 1)), Const(1, 5))),
              mul(add(Const(1, 1), mul(div(aht, Const(600, 1)), Const(-1, 1))),
                  Const(1, 10))), 4)

\* groupby(keys): the rows whose keys are all known, one group per key tuple,
\* the groups in the order of their keys.
KeyOf(row) == [k \in 1..Len(GROUP_KEYS) |-> row[GROUP_KEYS[k]]]
Keyed(rows) == SelectSeq(rows, LAMBDA row : \A k \in 1..Len(GROUP_KEYS) : KeyOf(row)[k] # NaNCell)
groupby(rows) ==
    LET keys == SortTuples({KeyOf(Keyed(rows)[i]) : i \in 1..Len(Keyed(rows))})
    IN [g \in 1..Len(keys) |->
          [key |-> keys[g], rows |-> SelectSeq(rows, LAMBDA row : KeyOf(row) = keys[g])]]

\* One row of agent_stats: the keys, the aggregates rounded to 3 decimals
\* under their final labels, and the two derived columns.
summary_row(group) ==
    LET column(c) == [i \in 1..Len(group.rows) |-> group.rows[i][c]]
        stats == [k \in 1..Len(AGGREGATIONS) |->
                    round(aggregate(column(AGGREGATIONS[k][1]), AGGREGATIONS[k][2]), 3)]
        stat(label) == stats[CHOOSE k \in 1..Len(AGGREGATIONS) :
                                SummaryLabel(AGGREGATIONS[k][3]) = label]
    IN [c \in {SummaryHeader[k] : k \in 1..Len(SummaryHeader)} |->
          IF c \in {GROUP_KEYS[k] : k \in 1..Len(GROUP_KEYS)}
          THEN group.key[CHOOSE k \in 1..Len(GROUP_KEYS) : GROUP_KEYS[k] = c]
          ELSE IF c = "avg_interactions_per_day"
          THEN round(div(stat("total_interactions_period"), stat("days_worked")), 1)
          ELSE IF c = "composite_performance_score"
          THEN composite_performance_score(stat("overall_goal_achievement_rate"),
                                           stat("avg_performance_score"),
                                           stat("avg_hourly_rate"),
                                           stat("average_handle_time_seconds_mean"))
          ELSE stat(c)]

\* calculate_agent_performance_summary: KeyError when self.df lacks a column
\* it groups by or aggregates, and agent_summary is then not assigned.
calculate_agent_performance_summary(d) ==
    IF ~(SummarySources \subseteq {d.columns[k] : k \in 1..Len(d.columns)})
    THEN Failed("KeyError", Absent)
    ELSE LET groups == groupby(d.rows)
         IN Done(Frame(SummaryHeader, [g \in 1..Len(groups) |-> summary_row(groups[g])]))

\* The semantic data set the analyzer loads: every column the summary reads,
\* or all but one of them; the events are a default event of one agent with
\* one field at a time changed.
EventHeader ==
    <<"agent_name", "agent_first_name", "agent_last_name", "performance_date",
      "total_interactions", "talk_time_goal_met", "hold_time_goal_met",
      "acw_goal_met", "aht_goal_met", "daily_goals_met_rate", "all_time_goals_met",
      "overall_performance_score", "hourly_interaction_rate", "talk_time_seconds",
      "hold_time_seconds", "after_call_work_seconds", "average_handle_time_seconds",
      "customer_satisfaction_score", "first_call_resolution_rate",
      "schedule_adherence_rate">>
DefaultEvent ==
    [c \in {EventHeader[k] : k \in 1..Len(EventHeader)} |->
        CASE c = "agent_name" -> StrCell(<<"d", ",", "j">>)
          [] c = "agent_first_name" -> StrCell(<<"j">>)
          [] c = "agent_last_name" -> StrCell(<<"d">>)
          [] c = "performance_date" ->
                StrCell(<<"2", "0", "2", "4", "-", "0", "1", "-", "1", "5">>)
          [] c = "total_interactions" -> IntCell(7)
          [] c = "daily_goals_met_rate" -> Const(9, 10)
          [] c = "overall_performance_score" -> Const(85, 1)
          [] c = "hourly_interaction_rate" -> Const(12, 1)
          [] c = "average_handle_time_seconds" -> Const(300, 1)
          [] OTHER -> Const(1, 1)]
OtherAgent ==
    [DefaultEvent EXCEPT !["agent_name"] = StrCell(<<"e", ",", "j">>),
                         !["agent_last_name"] = StrCell(<<"e">>)]
UnparsedAgent ==
    [DefaultEvent EXCEPT !["agent_name"] = StrCell(<<"d">>),
                         !["agent_first_name"] = NaNCell,
                         !["agent_last_name"] = NaNCell]
EventRows ==
    {DefaultEvent, OtherAgent, UnparsedAgent,
     With(DefaultEvent, "performance_date", NaNCell),
     With(DefaultEvent, "performance_date",
          StrCell(<<"2", "0", "2", "4", "-", "0", "1", "-", "0", "9">>)),
     With(DefaultEvent, "total_interactions", NaNCell),
     With(DefaultEvent, "daily_goals_met_rate", NaNCell),
     With(DefaultEvent, "daily_goals_met_rate", Const(1, 3)),
     With(DefaultEvent, "overall_performance_score", NaNCell),
     With(DefaultEvent, "overall_performance_score", Const(681, 8)),
     With(OtherAgent, "hourly_interaction_rate", NaNCell),
     With(OtherAgent, "hourly_interaction_rate", Const(25, 1)),
     With(DefaultEvent, "average_handle_time_seconds", NaNCell),
     With(DefaultEvent, "average_handle_time_seconds", Const(0, 1)),
     With(OtherAgent, "average_handle_time_seconds", Const(900, 1))}
EventFiles ==
    {Frame(EventHeader, rows) : rows \in UNION {[1..n -> EventRows] : n \in 0..MaxEvents}}
    \cup {Frame(Without(EventHeader, c),
                <<Restrict(DefaultEvent, Without(EventHeader, c))>>) :
             c \in {"talk_time_goal_met", "agent_first_name"}}

notEventVars == <<semVars, matchVars, nameVars, cleanVars, renameVars,
                  top_performers, top_n>>

InitSummary ==
    /\ events \in EventFiles
    /\ analysis_raised = Absent
    /\ agent_summary = Absent /\ top_performers = Absent /\ top_n = Absent
    /\ IdleSem /\ IdleMatch /\ IdleName /\ IdleClean /\ IdleRename

CalculateAgentPerformanceSummary ==
    /\ analysis_raised = Absent
    /\ LET result == calculate_agent_performance_summary(events)
       IN /\ analysis_raised' = result.raised
          /\ agent_summary' = result.df
    /\ UNCHANGED <<events, notEventVars>>

NextSummary == CalculateAgentPerformanceSummary

SpecSummary == InitSummary /\ [][NextSummary]_vars

(***************************************************************************)
(* Properties of calculate_agent_performance_summary.                      *)
(***************************************************************************)
\* The summary has been calculated.
Summarised == analysis_raised = ""
SummaryRows == {agent_summary.rows[i] : i \in 1..Len(agent_summary.rows)}

\* The four columns that feed the composite score.
CompositeInputs ==
    {"overall_goal_achievement_rate", "avg_performance_score", "avg_hourly_rate",
     "average_handle_time_seconds_mean"}
Finite(cell) == IsNumber(cell) /\ Number(cell)[2] # 0
AllFinite(row) == \A c \in CompositeInputs : Finite(row[c])
\* A value with at most k decimals, as a whole number of 10^-k.
ScaledBy(cell, k) == (Number(cell)[1] * Power10(k)) \div Number(cell)[2]

\* 6,000,000 times 0.4*rate + 0.3*(score/100) + 0.2*(hourly/20) + 0.1*(1 - aht/600),
\* computed in whole numbers from the row's columns in thousandths.
WeightedSum(row) ==
    2400 * ScaledBy(row["overall_goal_achievement_rate"], 3)
    + 18 * ScaledBy(row["avg_performance_score"], 3)
    + 60 * ScaledBy(row["avg_hourly_rate"], 3)
    + 600000 - ScaledBy(row["average_handle_time_seconds_mean"], 3)
\* WeightedSum in ten-thousandths of a point, the nearest one, a tie to the even one.
NearestTenThousandth(sum) ==
    LET q == sum \div 600
        r == sum % 600
    IN IF r > 300 \/ (r = 300 /\ q % 2 = 1) THEN q + 1 ELSE q
IsExample(row) ==
    /\ row["overall_goal_achievement_rate"] = Const(9, 10)
    /\ row["avg_performance_score"] = Const(85, 1)
    /\ row["avg_hourly_rate"] = Const(12, 1)
    /\ row["average_handle_time_seconds_mean"] = Const(300, 1)

\* C19 as it is stated: the composite score of every agent summary is exactly
\* the weighted sum of its four columns.
C19_AsStated ==
    Summarised =>
        \A row \in SummaryRows :
            AllFinite(row) =>
                /\ Finite(row["composite_performance_score"])
                /\ 600 * ScaledBy(row["composite_performance_score"], 4) = WeightedSum(row)

\* C19: the composite score of every agent summary is the weighted sum
\* 0.4*rate + 0.3*(score/100) + 0.2*(hourly/20) + 0.1*(1 - aht/600) of its own
\* columns rounded to 4 decimals, no term being clamped; for rate 0.9, score 85,
\* hourly rate 12 and handle time 300 it is 0.785.
C19_CompositeScore ==
    Summarised =>
        \A row \in SummaryRows :
            /\ AllFinite(row) =>
                  row["composite_performance_score"] =
                      Const(NearestTenThousandth(WeightedSum(row)), 10000)
            /\ IsExample(row) => row["composite_performance_score"] = Const(157, 200)
\* A summary where the rounding shows, beside one whose hourly-rate term is above
\* its share of 0.2.
C19_Witness ==
    /\ Summarised
    /\ \E row \in SummaryRows : AllFinite(row) /\ WeightedSum(row) % 600 # 0
    /\ \E row \in SummaryRows :
          /\ AllFinite(row)
          /\ RatLess(Number(Const(20, 1)), Number(row["avg_hourly_rate"]))

\* C20: an agent summary in which one of the four columns that feed the
\* composite score is missing has a missing composite score.
C20_MissingMetricPropagates ==
    Summarised =>
        \A row \in SummaryRows :
            (\E c \in CompositeInputs : row[c] = NaNCell) =>
                row["composite_performance_score"] = NaNCell
\* An agent whose only event lacks one metric and has the other three.
C20_Witness ==
    /\ Summarised
    /\ \E row \in SummaryRows :
          /\ \E c \in CompositeInputs :
                /\ row[c] = NaNCell
                /\ \A o \in CompositeInputs \ {c} : Finite(row[o])
          /\ row["composite_performance_score"] = NaNCell

\* The events of self.df and the summaries that bear a key.
EventRowsOf(key) == {i \in 1..Len(events.rows) : KeyOf(events.rows[i]) = key}
SummariesOf(key) == {i \in 1..Len(agent_summary.rows) : KeyOf(agent_summary.rows[i]) = key}

\* C21: in every agent summary days_worked is the number of event rows of that
\* agent and at least 1, and avg_interactions_per_day is no division by zero.
C21_DaysWorkedCountsEvents ==
    Summarised =>
        \A row \in SummaryRows :
            /\ row["days_worked"] = IntCell(Cardinality(EventRowsOf(KeyOf(row))))
            /\ row["days_worked"].value[1] >= 1
            /\ row["avg_interactions_per_day"] =
                  round(div(row["total_interactions_period"],
                            IntCell(Cardinality(EventRowsOf(KeyOf(row))))), 1)

\* C22: there is exactly one agent summary for every (agent_name,
\* agent_first_name, agent_last_name) triple that occurs in the events, null
\* names included, and none for any other triple.
C22_OneSummaryPerTriple ==
    Summarised =>
        /\ \A i \in 1..Len(events.rows) :
              Cardinality(SummariesOf(KeyOf(events.rows[i]))) = 1
        /\ \A row \in SummaryRows : EventRowsOf(KeyOf(row)) # {}

(***************************************************************************)
(* AEPDataCleaner.clean_column_names on arbitrary headers.                 *)
(***************************************************************************)
MaxLabelLen == 4

\* Headers of one column: capitals, spaces, tabs, hyphens and underscores in
\* every arrangement, over one row of data.
LabelAlphabet == {"A", "b", " ", "\t", "-", "_"}
LabelStrings == UNION {[1..k -> LabelAlphabet] : k \in 1..MaxLabelLen}
LabelFiles == {Frame(<<label>>, <<[c \in {label} |-> <<"7">>]>>) : label \in LabelStrings}

InitLabels ==
    /\ csv \in LabelFiles
    /\ clean_df = Null
    /\ data_quality_report = EmptyReport
    /\ pc = [stage |-> "load_data", raised |-> ""]
    /\ IdleSem /\ IdleRank /\ IdleMatch /\ IdleName /\ IdleRename /\ IdleEvents

NextLabels ==
    \/ LoadData
    \/ CleanColumnNames

SpecLabels == InitLabels /\ [][NextLabels]_vars

\* C23: clean_column_names leaves the labels it produced unchanged:
\* normalize(normalize(l)) = normalize(l) for every label l.
C23_CleanColumnNamesIdempotent ==
    At("parse_dates") =>
        /\ clean_column_names(clean_df) = clean_df
        /\ \A k \in 1..Len(csv.columns) :
              clean_label(clean_label(csv.columns[k])) = clean_label(csv.columns[k])
\* A header that the first normalisation changed in each of its four steps.
C23_Witness ==
    /\ At("parse_dates")
    /\ csv.columns = <<<<" ", "A", " ", "b">>>>
    /\ clean_df.columns = <<<<"a", "_", "b">>>>
    /\ clean_column_names(clean_df) = clean_df

(***************************************************************************)
(* Further properties of add_business_logic_columns.                       *)
(***************************************************************************)
\* The frame without one of its columns.
DropColumn(df, col) ==
    [columns |-> df.columns \ {col},
     rows |-> [i \in 1..Len(df.rows) |-> [c \in df.columns \ {col} |-> df.rows[i][c]]]]

\* C24 as it is stated: a run at any other time produces the same rows.
C24_AsStated ==
    [][\A now \in Timestamps : sem_df' = add_business_logic_columns(sem_df, now)]_vars

\* C24: a run at any other time produces the same rows but for their
\* processed_timestamp, which is the time of the run.
C24_OnlyTimestampDiffers ==
    [][\A now \in Timestamps :
          LET other == add_business_logic_columns(sem_df, now)
          IN /\ DropColumn(sem_df', "processed_timestamp")
                   = DropColumn(other, "processed_timestamp")
             /\ \A i \in 1..Len(other.rows) : other.rows[i].processed_timestamp = now]_vars
\* A run at the later of two times, over rows with and without a score.
C24_Witness ==
    /\ "processed_timestamp" \in sem_df.columns
    /\ "overall_performance_score" \in sem_df.columns
    /\ \E i, j \in 1..Len(sem_df.rows) :
          /\ sem_df.rows[i].processed_timestamp = "t2"
          /\ sem_df.rows[i].overall_performance_score = Null
          /\ sem_df.rows[j].overall_performance_score # Null

\* C29: a score in the closed range 0..100 gets one of the four tiers; a score
\* below 0 or above 100 and a null score get a null tier, unclamped.
C29_TierOrNull ==
    "performance_tier" \in sem_df.columns =>
        \A i \in 1..Len(sem_df.rows) :
            LET s == sem_df.rows[i].overall_performance_score
                t == sem_df.rows[i].performance_tier
            IN IF s # Null /\ Val(s) >= 0 /\ Val(s) <= 100 * ScoreScale
               THEN \E k \in 1..Len(TierLabels) : t = Some(TierLabels[k])
               ELSE t = Null
\* A score above 100 without a tier beside the score 0 in the lowest tier.
C29_Witness ==
    /\ "performance_tier" \in sem_df.columns
    /\ \E i, j \in 1..Len(sem_df.rows) :
          /\ sem_df.rows[i].overall_performance_score = Some(100 * ScoreScale + 1)
          /\ sem_df.rows[i].performance_tier = Null
          /\ sem_df.rows[j].overall_performance_score = Some(0)
          /\ sem_df.rows[j].performance_tier = Some(TierLabels[1])

\* The labels of a frame are pairwise distinct.
DistinctLabels(d) ==
    \A j, k \in 1..Len(d.columns) : d.columns[j] = d.columns[k] => j = k
\* A column that the table renames to the label of a column that it leaves alone.
Collisions(d) ==
    {k \in MappedHere(d) :
        \E j \in 1..Len(d.columns) \ MappedHere(d) :
            \E p \in 1..Len(column_mapping) :
                /\ column_mapping[p][1] = d.columns[k]
                /\ column_mapping[p][2] = d.columns[j]}
RenamingStep == transformation_log' # transformation_log /\ column_mapping' = column_mapping

\* C30 as it is stated: apply_column_renaming turns pairwise distinct labels
\* into pairwise distinct labels.
C30_AsStated ==
    [][(RenamingStep /\ DistinctLabels(sem_df)) => DistinctLabels(sem_df')]_vars

\* C30: the table gives distinct source names distinct public names, and
\* apply_column_renaming turns pairwise distinct labels into pairwise distinct
\* labels unless it renames a column to the label of a column that the table
\* leaves alone: then both columns bear that label.
C30_DistinctUnlessTaken ==
    [][(RenamingStep /\ DistinctLabels(sem_df)) =>
          /\ \A p, q \in 1..Len(column_mapping) :
                (column_mapping[p][1] = column_mapping[q][1]
                    \/ column_mapping[p][2] = column_mapping[q][2]) => p = q
          /\ DistinctLabels(sem_df') <=> Collisions(sem_df) = {}
          /\ \A k \in Collisions(sem_df) :
                \E j \in 1..Len(sem_df.columns) :
                    j # k /\ sem_df'.columns[j] = sem_df'.columns[k]]_vars
\* manager_hierarchy_location has become location beside the column that was
\* location already.
C30_Witness ==
    /\ Renamings = 1
    /\ column_mapping # <<>>
    /\ \E j, k \in 1..Len(sem_df.columns) :
          j # k /\ sem_df.columns[j] = "location" /\ sem_df.columns[k] = "location"

\* Every row of the cleaned frame has a calls_per_hour that is a number and
\* is not below zero.
CallsPerHourFilled ==
    /\ col_calls_per_hour \in Labels(clean_df)
    /\ \A i \in 1..Len(clean_df.rows) :
          /\ IsNumber(clean_df.rows[i][col_calls_per_hour])
          /\ ~RatLess(Number(clean_df.rows[i][col_calls_per_hour]), RatOfInt(0))
RawLabels == {csv.columns[k] : k \in 1..Len(csv.columns)}

\* C27 as it is stated: after the cleaning pipeline every row has a non-null
\* calls_per_hour that is at least 0.
C27_AsStated == Finished => CallsPerHourFilled

\* C27: after the cleaning pipeline on an export that has the handle-time and
\* the interaction-count columns, every row has a non-null calls_per_hour that
\* is at least 0, also where the raw handle time was missing, zero or
\* negative; on an export that lacks one of the two there is no
\* calls_per_hour column.
C27_FilledWhenDerived ==
    Finished =>
        IF {raw_aht, raw_interaction_count} \subseteq RawLabels
        THEN CallsPerHourFilled
        ELSE col_calls_per_hour \notin Labels(clean_df)
\* The pipeline has finished on an export with a missing handle time beside a
\* negative one, and both rows have 0 calls per hour.
C27_Witness ==
    /\ Finished
    /\ Len(csv.rows) = 2
    /\ {raw_aht, raw_interaction_count} \subseteq RawLabels
    /\ csv.rows[1][raw_aht] = <<>>
    /\ csv.rows[2][raw_aht] = <<"-", "5">>
    /\ \A i \in 1..2 : clean_df.rows[i][col_calls_per_hour] = FloatCell(<<0, 1>>)

(***************************************************************************)
(* SemanticTransformer.standardize_data_types                              *)
(***************************************************************************)
MaxStdRows == 2
MaxStandardizations == 2

\* percentage_columns with the derived score among them.
percentage_columns_with_score ==
    <<"talk_time_availability_pct", "off_phone_time_pct", "paperless_conversion_rate",
      "first_call_resolution_rate", "schedule_adherence_rate",
      "customer_satisfaction_score", "overall_performance_score">>
percentage_columns ==
    <<"talk_time_availability_pct", "off_phone_time_pct", "paperless_conversion_rate",
      "first_call_resolution_rate", "schedule_adherence_rate",
      "customer_satisfaction_score">>
integer_columns ==
    <<"performance_year", "performance_day", "week_of_year", "total_interactions",
      "homeserve_transfer_count", "allconnect_transfer_count">>

\* The cells of one column, and the frame with one column recomputed.
Series(d, col) == [i \in 1..Len(d.rows) |-> d.rows[i][col]]
Recomputed(d, col, F(_)) ==
    Frame(d.columns, [i \in 1..Len(d.rows) |-> [d.rows[i] EXCEPT ![col] = F(@)]])

\* if self.df[col].max() > 1: self.df[col] = self.df[col] / 100
IsPercentage(cells) == /\ agg_max(cells) # NaNCell
                       /\ RatLess(RatOfInt(1), Number(agg_max(cells)))
Hundredth(cell) == div(cell, IntCell(100))
\* The same rescaling decided value by value.
to_decimal_by_value(d, col) ==
    Recomputed(d, col, LAMBDA cell : IF IsPercentage(<<cell>>) THEN Hundredth(cell) ELSE cell)
to_decimal(d, col) ==
    IF IsPercentage(Series(d, col)) THEN Recomputed(d, col, Hundredth) ELSE d

\* replace([inf, -inf], nan), to_numeric(errors='coerce'), round(), astype('Int64')
to_Int64(cell) ==
    IF ~IsNumber(cell) \/ Number(cell)[2] = 0 THEN NaNCell
    ELSE IntCell(round(FloatCell(Number(cell)), 0).value[1])
to_integer(d, col) == Recomputed(d, col, to_Int64)

\* for col in ...: if col in self.df.columns: ...
RECURSIVE to_decimals(_, _)
to_decimals(d, cols) ==
    IF cols = <<>> THEN d
    ELSE to_decimals(IF Head(cols) \in Labels(d) THEN to_decimal(d, Head(cols)) ELSE d,
                     Tail(cols))
RECURSIVE to_integers(_, _)
to_integers(d, cols) ==
    IF cols = <<>> THEN d
    ELSE to_integers(IF Head(cols) \in Labels(d) THEN to_integer(d, Head(cols)) ELSE d,
                     Tail(cols))

standardize_data_types(d, log) ==
    [df |-> to_integers(to_decimals(d, percentage_columns), integer_columns),
     transformation_log |-> Append(log, <<"Data types standardized">>)]

\* The renamed output of the cleaning stage: the score is the one that
\* add_calculated_metrics derived from the three ratio columns of the row.
StdHeader ==
    <<"talk_time_availability_pct", "first_call_resolution_rate", "schedule_adherence_rate",
      "overall_performance_score", "customer_satisfaction_score", "total_interactions">>
RatioCells == {NaNCell, Const(1, 2), Const(80, 1)}
StdRow(ta, rr, cf, osat, count) ==
    [c \in {StdHeader[k] : k \in 1..Len(StdHeader)} |->
        CASE c = "talk_time_availability_pct" -> ta
          [] c = "first_call_resolution_rate" -> rr
          [] c = "schedule_adherence_rate" -> cf
          [] c = "overall_performance_score" -> performance_score(ta, rr, cf)
          [] c = "customer_satisfaction_score" -> osat
          [] c = "total_interactions" -> count]
StdRows ==
    {StdRow(ta, rr, cf, Const(9, 10), IntCell(7)) : ta, rr, cf \in RatioCells}
    \cup {StdRow(v, v, v, v, IntCell(7)) :
             v \in {Const(0, 1), Const(1, 1), IntCell(100), Const(150, 1)}}
    \cup {StdRow(Const(80, 1), Const(90, 1), Const(70, 1), Const(95, 1), count) :
             count \in {NaNCell, Const(5, 2), Const(7, 2), Const(-5, 2), FloatCell(PosInf)}}
StdFiles ==
    {Frame(StdHeader, rows) : rows \in UNION {[1..n -> StdRows] : n \in 0..MaxStdRows}}
    \cup {Frame(Without(StdHeader, c),
                <<Restrict(StdRow(Const(80, 1), Const(1, 2), Const(70, 1), Const(95, 1),
                                  IntCell(7)),
                           Without(StdHeader, c))>>) :
             c \in {"customer_satisfaction_score", "total_interactions",
                    "first_call_resolution_rate"}}

InitStandardize ==
    /\ sem_df \in StdFiles
    /\ column_mapping = <<>>
    /\ transformation_log = <<>>
    /\ IdleRank /\ IdleMatch /\ IdleName /\ IdleClean /\ IdleEvents

\* The number of times standardize_data_types has run.
Standardizations ==
    Len(SelectSeq(transformation_log, LAMBDA e : e[1] = "Data types standardized"))

StandardizeDataTypes ==
    /\ Standardizations < MaxStandardizations
    /\ LET result == standardize_data_types(sem_df, transformation_log)
       IN /\ sem_df' = result.df
          /\ transformation_log' = result.transformation_log
    /\ UNCHANGED <<column_mapping, notRenameVars>>

NextStandardize == StandardizeDataTypes

SpecStandardize == InitStandardize /\ [][NextStandardize]_vars

RatioColumns == {"talk_time_availability_pct", "first_call_resolution_rate",
                 "schedule_adherence_rate", "customer_satisfaction_score"}
ScoreInputs == <<"talk_time_availability_pct", "first_call_resolution_rate",
                 "schedule_adherence_rate">>
StandardizingStep == Standardizations' = Standardizations + 1
\* The cell is a number above 1; the second cell is the first, or a
\* hundredth of it.
AboveOne(cell) == IsNumber(cell) /\ Number(cell)[2] * 1 < Number(cell)[1]
Same(v, w) == v = w \/ (IsNumber(v) /\ IsNumber(w) /\ Number(v) = Number(w))
IsHundredthOf(w, v) ==
    /\ IsNumber(v) /\ IsNumber(w)
    /\ Number(w)[1] * 100 * Number(v)[2] = Number(v)[1] * Number(w)[2]
InUnit(cell) == /\ IsNumber(cell)
                /\ 0 <= Number(cell)[1]
                /\ Number(cell)[1] <= Number(cell)[2]
InHundred(cell) == /\ IsNumber(cell)
                   /\ 0 <= Number(cell)[1]
                   /\ Number(cell)[1] <= 100 * Number(cell)[2]

\* C25 as it is stated: standardize_data_types divides by 100 each value of a
\* ratio column that was greater than 1 and leaves every other value as it was.
C25_AsStated ==
    [][StandardizingStep =>
          \A col \in RatioColumns \cap Labels(sem_df) : \A i \in 1..Len(sem_df.rows) :
              IF AboveOne(sem_df.rows[i][col])
              THEN IsHundredthOf(sem_df'.rows[i][col], sem_df.rows[i][col])
              ELSE Same(sem_df.rows[i][col], sem_df'.rows[i][col])]_vars

\* C25: standardize_data_types divides by 100 every value of a ratio column
\* in which some value was greater than 1 and leaves every other ratio column
\* as it was, so that every value of a column whose inputs lay in 0..100 lies
\* in 0..1.
C25_RescaledByColumn ==
    [][StandardizingStep =>
          \A col \in RatioColumns \cap Labels(sem_df) :
              /\ \A i \in 1..Len(sem_df.rows) :
                    IF \E j \in 1..Len(sem_df.rows) : AboveOne(sem_df.rows[j][col])
                    THEN \/ IsHundredthOf(sem_df'.rows[i][col], sem_df.rows[i][col])
                         \/ sem_df.rows[i][col] = NaNCell /\ sem_df'.rows[i][col] = NaNCell
                    ELSE Same(sem_df.rows[i][col], sem_df'.rows[i][col])
              /\ (\A i \in 1..Len(sem_df.rows) : InHundred(sem_df.rows[i][col]))
                    => \A i \in 1..Len(sem_df.rows) : InUnit(sem_df'.rows[i][col])]_vars
\* A column of 1/2 and 80 has become 1/200 and 4/5.
C25_Witness ==
    /\ Standardizations = 1
    /\ Len(sem_df.rows) = 2
    /\ "talk_time_availability_pct" \in Labels(sem_df)
    /\ sem_df.rows[1]["talk_time_availability_pct"] = FloatCell(<<1, 200>>)
    /\ sem_df.rows[2]["talk_time_availability_pct"] = FloatCell(<<4, 5>>)

\* A number of the frames in units of 1/20000.
Units(cell) == Number(cell)[1] * (20000 \div Number(cell)[2])
\* 100 where the column holds a value above 1, and 1 elsewhere.
Factor(d, col) == IF \E j \in 1..Len(d.rows) : AboveOne(d.rows[j][col]) THEN 100 ELSE 1
HasScoreInputs(d, i) ==
    /\ \A k \in 1..Len(ScoreInputs) : ScoreInputs[k] \in Labels(d)
    /\ "overall_performance_score" \in Labels(d)
    /\ \A k \in 1..Len(ScoreInputs) : IsNumber(d.rows[i][ScoreInputs[k]])
\* The first run of standardize_data_types on the frame of the cleaning stage.
SemanticStage == StandardizingStep /\ Standardizations = 0

\* C28 as it is stated: in the output of the semantic stage the score of a
\* row with its three inputs is 0.3, 0.4 and 0.3 times the three ratios of
\* that row.
C28_AsStated ==
    [][SemanticStage =>
          \A i \in 1..Len(sem_df.rows) :
              HasScoreInputs(sem_df, i) =>
                  /\ IsNumber(sem_df'.rows[i]["overall_performance_score"])
                  /\ 10 * Units(sem_df'.rows[i]["overall_performance_score"])
                        = 3 * Units(sem_df'.rows[i]["talk_time_availability_pct"])
                          + 4 * Units(sem_df'.rows[i]["first_call_resolution_rate"])
                          + 3 * Units(sem_df'.rows[i]["schedule_adherence_rate"])]_vars

\* C28: standardize_data_types leaves overall_performance_score as the
\* cleaning stage derived it, so in the output of the semantic stage the
\* score of a row with its three inputs is 0.3, 0.4 and 0.3 times the three
\* ratios of that row, each taken 100 times where its column was divided by 100.
C28_ScoreNotRescaled ==
    [][SemanticStage =>
          \A i \in 1..Len(sem_df.rows) :
              /\ "overall_performance_score" \in Labels(sem_df) =>
                    sem_df'.rows[i]["overall_performance_score"]
                        = sem_df.rows[i]["overall_performance_score"]
              /\ HasScoreInputs(sem_df, i) =>
                  /\ IsNumber(sem_df'.rows[i]["overall_performance_score"])
                  /\ 10 * Units(sem_df'.rows[i]["overall_performance_score"])
                        = 3 * Factor(sem_df, "talk_time_availability_pct")
                            * Units(sem_df'.rows[i]["talk_time_availability_pct"])
                          + 4 * Factor(sem_df, "first_call_resolution_rate")
                              * Units(sem_df'.rows[i]["first_call_resolution_rate"])
                          + 3 * Factor(sem_df, "schedule_adherence_rate")
                              * Units(sem_df'.rows[i]["schedule_adherence_rate"])]_vars
\* A score of 80 stands beside the three ratios 4/5 it was derived from as 80.
C28_Witness ==
    /\ Standardizations = 1
    /\ \E i \in 1..Len(sem_df.rows) :
          /\ HasScoreInputs(sem_df, i)
          /\ sem_df.rows[i]["overall_performance_score"] = FloatCell(<<80, 1>>)
          /\ \A k \in 1..Len(ScoreInputs) :
                sem_df.rows[i][ScoreInputs[k]] = FloatCell(<<4, 5>>)

(***************************************************************************)
(* The stages in a row: run_pipeline, run_transformation and               *)
(* calculate_agent_performance_summary.                                    *)
(***************************************************************************)
MaxComposeRows == 1

\* The raw labels of the other columns that the renaming table names.
ExtraHeader ==
    <<<<"M", "a", "n", "a", "g", "e", "r", " ", "H", "i", "e", "r", "a", "r", "c", "h",
      "y", " ", "-", " ", "M", "a", "n", "a", "g", "e", "r">>,
      <<"M", "a", "n", "a", "g", "e", "r", " ", "H", "i", "e", "r", "a", "r", "c", "h",
      "y", " ", "-", " ", "L", "o", "c", "a", "t", "i", "o", "n">>,
      <<"M", "a", "n", "a", "g", "e", "r", " ", "H", "i", "e", "r", "a", "r", "c", "h",
      "y", " ", "-", " ", "S", "u", "p", "e", "r", "v", "i", "s", "o", "r">>,
      <<"H", "o", "l", "d">>,
      <<"A", "C", "W">>,
      <<"O", "S", "A", "T", " ", "w", "i", "t", "h", " ", "A", "g", "e", "n", "t">>,
      <<"O", "f", "f", " ", "P", "h", "o", "n", "e", " ", "%">>,
      <<"P", "a", "p", "e", "r", "l", "e", "s", "s", " ", "C", "o", "n", "v", "e", "r",
      "s", "i", "o", "n">>,
      <<"H", "o", "m", "e", "s", "e", "r", "v", "e", " ", "T", "r", "a", "n", "s", "f",
      "e", "r", "s">>,
      <<"A", "l", "l", "C", "o", "n", "n", "e", "c", "t", " ", "X", "F", "E", "R", "/",
      "M", "a", "t", "c", "h", " ", "C", "o", "m", "b", "o">>>>
\* Raw labels of goal columns, as an export may carry them.
GoalHeader ==
    <<<<"T", "a", "l", "k", " ", "T", "i", "m", "e", " ", "G", "o", "a", "l", " ", "M",
      "e", "t">>,
      <<"H", "o", "l", "d", " ", "T", "i", "m", "e", " ", "G", "o", "a", "l", " ", "M",
      "e", "t">>,
      <<"A", "C", "W", " ", "G", "o", "a", "l", " ", "M", "e", "t">>,
      <<"A", "H", "T", " ", "G", "o", "a", "l", " ", "M", "e", "t">>,
      <<"D", "a", "i", "l", "y", " ", "G", "o", "a", "l", "s", " ", "M", "e", "t", " ",
      "R", "a", "t", "e">>,
      <<"A", "l", "l", " ", "T", "i", "m", "e", " ", "G", "o", "a", "l", "s", " ", "M",
      "e", "t">>>>
\* A label as the characters of the cleaner and as the text of the later stages.
LabelTexts ==
    <<<<<<"m", "a", "n", "a", "g", "e", "r", "_", "h", "i", "e", "r", "a", "r", "c",
        "h", "y", "_", "m", "a", "n", "a", "g", "e", "r">>,
        "manager_hierarchy_manager">>,
      <<<<"m", "a", "n", "a", "g", "e", "r", "_", "h", "i", "e", "r", "a", "r", "c",
        "h", "y", "_", "l", "o", "c", "a", "t", "i", "o", "n">>,
        "manager_hierarchy_location">>,
      <<<<"m", "a", "n", "a", "g", "e", "r", "_", "h", "i", "e", "r", "a", "r", "c",
        "h", "y", "_", "s", "u", "p", "e", "r", "v", "i", "s", "o", "r">>,
        "manager_hierarchy_supervisor">>,
      <<<<"m", "a", "n", "a", "g", "e", "r", "_", "h", "i", "e", "r", "a", "r", "c",
        "h", "y", "_", "n", "a", "m", "e">>, "manager_hierarchy_name">>,
      <<<<"d", "a", "t", "e", "_", "y", "e", "a", "r">>, "date_year">>,
      <<<<"d", "a", "t", "e", "_", "m", "o", "n", "t", "h">>, "date_month">>,
      <<<<"d", "a", "t", "e", "_", "d", "a", "y">>, "date_day">>,
      <<<<"d", "a", "t", "e">>, "date">>,
      <<<<"w", "e", "e", "k", "d", "a", "y">>, "weekday">>,
      <<<<"w", "e", "e", "k", "_", "n", "u", "m", "b", "e", "r">>, "week_number">>,
      <<<<"i", "s", "_", "w", "e", "e", "k", "e", "n", "d">>, "is_weekend">>,
      <<<<"t", "a", "l", "k">>, "talk">>,
      <<<<"h", "o", "l", "d">>, "hold">>,
      <<<<"a", "c", "w">>, "acw">>,
      <<<<"a", "h", "t">>, "aht">>,
      <<<<"i", "n", "t", "e", "r", "a", "c", "t", "i", "o", "n", "_", "c", "o", "u",
        "n", "t">>, "interaction_count">>,
      <<<<"o", "s", "a", "t", "_", "w", "i", "t", "h", "_", "a", "g", "e", "n", "t">>,
        "osat_with_agent">>,
      <<<<"r", "e", "s", "o", "l", "u", "t", "i", "o", "n", "_", "r", "a", "t", "e">>,
        "resolution_rate">>,
      <<<<"c", "o", "n", "f", "o", "r", "m", "a", "n", "c", "e">>, "conformance">>,
      <<<<"t", "a", "l", "k", "_", "a", "v", "a", "i", "l", "a", "b", "l", "e", "_",
        "%">>, "talk_available_%">>,
      <<<<"o", "f", "f", "_", "p", "h", "o", "n", "e", "_", "%">>, "off_phone_%">>,
      <<<<"p", "a", "p", "e", "r", "l", "e", "s", "s", "_", "c", "o", "n", "v", "e",
        "r", "s", "i", "o", "n">>, "paperless_conversion">>,
      <<<<"h", "o", "m", "e", "s", "e", "r", "v", "e", "_", "t", "r", "a", "n", "s",
        "f", "e", "r", "s">>, "homeserve_transfers">>,
      <<<<"a", "l", "l", "c", "o", "n", "n", "e", "c", "t", "_", "x", "f", "e", "r",
        "/", "m", "a", "t", "c", "h", "_", "c", "o", "m", "b", "o">>,
        "allconnect_xfer/match_combo">>,
      <<<<"p", "e", "r", "f", "o", "r", "m", "a", "n", "c", "e", "_", "s", "c", "o",
        "r", "e">>, "performance_score">>,
      <<<<"c", "a", "l", "l", "s", "_", "p", "e", "r", "_", "h", "o", "u", "r">>,
        "calls_per_hour">>,
      <<<<"a", "g", "e", "n", "t", "_", "l", "a", "s", "t", "_", "n", "a", "m", "e">>,
        "agent_last_name">>,
      <<<<"a", "g", "e", "n", "t", "_", "f", "i", "r", "s", "t", "_", "n", "a", "m",
        "e">>, "agent_first_name">>,
      <<<<"a", "g", "e", "n", "t", "_", "m", "i", "d", "d", "l", "e", "_", "i", "n",
        "i", "t", "i", "a", "l">>, "agent_middle_initial">>,
      <<<<"t", "a", "l", "k", "_", "t", "i", "m", "e", "_", "g", "o", "a", "l", "_",
        "m", "e", "t">>, "talk_time_goal_met">>,
      <<<<"h", "o", "l", "d", "_", "t", "i", "m", "e", "_", "g", "o", "a", "l", "_",
        "m", "e", "t">>, "hold_time_goal_met">>,
      <<<<"a", "c", "w", "_", "g", "o", "a", "l", "_", "m", "e", "t">>, "acw_goal_met">>,
      <<<<"a", "h", "t", "_", "g", "o", "a", "l", "_", "m", "e", "t">>, "aht_goal_met">>,
      <<<<"d", "a", "i", "l", "y", "_", "g", "o", "a", "l", "s", "_", "m", "e", "t",
        "_", "r", "a", "t", "e">>, "daily_goals_met_rate">>,
      <<<<"a", "l", "l", "_", "t", "i", "m", "e", "_", "g", "o", "a", "l", "s", "_",
        "m", "e", "t">>, "all_time_goals_met">>>>
TableHeader == RawHeader \o ExtraHeader
ExtraFields ==
    <<<<"m">>, <<"x">>, <<"s">>, <<"5">>, <<"4", "1">>, <<"9", "5", "%">>, <<"1", "0", "%">>,
      <<"1">>, <<"0">>, <<"2">>>>
ComposeBases ==
    {DefaultRow, With(DefaultRow, raw_aht, <<"0">>), With(DefaultRow, raw_name, <<"c">>),
     With(DefaultRow, raw_talk_available, <<>>), With(DefaultRow, raw_date_day, <<"3", "2">>),
     With(DefaultRow, raw_interaction_count, <<>>)}
ComposeRow(header, base) ==
    [c \in {header[k] : k \in 1..Len(header)} |->
        IF Among(RawHeader, c) THEN base[c]
        ELSE IF Among(ExtraHeader, c) THEN ExtraFields[IndexOf(ExtraHeader, c)]
        ELSE <<"1">>]
ComposeHeaders ==
    {TableHeader, TableHeader \o GoalHeader, RawHeader, Without(TableHeader, raw_name)}
ComposeFiles ==
    {Frame(header, [i \in 1..Len(bases) |-> ComposeRow(header, bases[i])]) :
        header \in ComposeHeaders,
        bases \in UNION {[1..n -> ComposeBases] : n \in 0..MaxComposeRows}}

\* to_csv and read_csv between two stages: the labels are text, and a column
\* of whole numbers with a gap comes back as float64.
Text(chars) == LabelTexts[CHOOSE p \in 1..Len(LabelTexts) : LabelTexts[p][1] = chars][2]
reread(cell, cells) ==
    IF cell.type = "int" /\ \E i \in 1..Len(cells) : cells[i] = NaNCell
    THEN FloatCell(Number(cell)) ELSE cell
load_cleaned_data(d) ==
    Frame([k \in 1..Len(d.columns) |-> Text(d.columns[k])],
          [i \in 1..Len(d.rows) |->
             [k \in 1..Len(d.columns) |->
                reread(d.rows[i][d.columns[k]],
                       [j \in 1..Len(d.rows) |-> d.rows[j][d.columns[k]]])]])
load_semantic_data(d) ==
    Frame(d.columns,
          [i \in 1..Len(d.rows) |->
             [c \in Labels(d) |-> reread(d.rows[i][c], Series(d, c))]])

\* The frame with its rows read by label.
AsRecords(d) ==
    Frame(d.columns,
          [i \in 1..Len(d.rows) |->
             [c \in Labels(d) |-> d.rows[i][IndexOf(d.columns, c)]]])
\* A cell as add_business_logic_columns reads it: a finite number in units of
\* 1/scale, rounded up, so that it stands to every whole bin edge as the
\* number does.
AsNullable(cell, scale) ==
    IF ~IsNumber(cell) \/ Number(cell)[2] = 0 THEN Null
    ELSE Some(-((-(Number(cell)[1] * scale)) \div Number(cell)[2]))
BusinessInputs ==
    <<<<"overall_performance_score", ScoreScale>>, <<"total_interactions", 1>>,
      <<"hourly_interaction_rate", 1>>>>
BusinessColumns ==
    <<"performance_tier", "high_volume_day", "efficiency_category", "processed_timestamp">>
AsCell(col, value) ==
    CASE col = "high_volume_day" -> BoolCell(value)
      [] col = "processed_timestamp" -> StrCell(<<value>>)
      [] OTHER -> IF value = Null THEN NaNCell ELSE StrCell(value)
\* add_business_logic_columns on the frame of the semantic stage.
with_business_logic_columns(d, now) ==
    LET read == SelectSeq(BusinessInputs, LAMBDA p : p[1] \in Labels(d))
        labels == {read[k][1] : k \in 1..Len(read)}
        scale(c) == read[CHOOSE k \in 1..Len(read) : read[k][1] = c][2]
        known == [columns |-> labels,
                  rows |-> [i \in 1..Len(d.rows) |->
                              [c \in labels |->
                                  AsNullable(d.rows[i][IndexOf(d.columns, c)], scale(c))]]]
        made == add_business_logic_columns(known, now)
        new == SelectSeq(BusinessColumns, LAMBDA c : c \in made.columns)
        kept == SelectSeq(d.columns, LAMBDA c : ~Among(new, c))
    IN Frame(kept \o new,
             [i \in 1..Len(d.rows) |->
                [c \in Labels(d) \cup made.columns |->
                    IF Among(new, c) THEN AsCell(c, made.rows[i][c])
                    ELSE d.rows[i][IndexOf(d.columns, c)]]])

\* self.df = None before a stage has loaded its file: the frame without
\* columns, which no read_csv of an export gives.
Unloaded == Frame(<<>>, <<>>)
Loaded(d) == d.columns # <<>>
Logged(entry) == \E e \in 1..Len(transformation_log) : transformation_log[e][1] = entry

InitCompose ==
    /\ csv \in ComposeFiles
    /\ clean_df = Null
    /\ data_quality_report = EmptyReport
    /\ pc = [stage |-> "load_data", raised |-> ""]
    /\ column_mapping = <<>>
    /\ transformation_log = <<>>
    /\ sem_df = Unloaded
    /\ events = Unloaded
    /\ analysis_raised = Absent
    /\ IdleRank /\ IdleMatch /\ IdleName

LoadCleanedData ==
    /\ Finished
    /\ ~Loaded(sem_df)
    /\ sem_df' = load_cleaned_data(clean_df)
    /\ UNCHANGED <<rankVars, matchVars, nameVars, cleanVars, renameVars, eventVars>>

DefineColumnMappingStage == Loaded(sem_df) /\ DefineColumnMapping

ApplyColumnRenamingStage ==
    /\ Loaded(sem_df) /\ column_mapping # <<>> /\ Renamings = 0
    /\ ApplyColumnRenaming

AddBusinessLogicColumnsStage ==
    /\ Renamings = 1
    /\ ~Logged("Business logic columns added")
    /\ \E now \in Timestamps : sem_df' = with_business_logic_columns(sem_df, now)
    /\ transformation_log' = Append(transformation_log, <<"Business logic columns added">>)
    /\ UNCHANGED <<column_mapping, notRenameVars>>

StandardizeDataTypesStage ==
    /\ Logged("Business logic columns added")
    /\ Standardizations = 0
    /\ StandardizeDataTypes

\* validate_transformation reads performance_date; save_transformed_data
\* writes the frame, and load_semantic_data reads it.
LoadSemanticData ==
    /\ Standardizations = 1
    /\ "performance_date" \in Labels(sem_df)
    /\ ~Loaded(events)
    /\ events' = load_semantic_data(sem_df)
    /\ UNCHANGED <<analysis_raised, notEventVars, agent_summary>>

SummaryStage == Loaded(events) /\ CalculateAgentPerformanceSummary

NextCompose ==
    \/ NextClean
    \/ LoadCleanedData
    \/ DefineColumnMappingStage
    \/ ApplyColumnRenamingStage
    \/ AddBusinessLogicColumnsStage
    \/ StandardizeDataTypesStage
    \/ LoadSemanticData
    \/ SummaryStage

SpecCompose == InitCompose /\ [][NextCompose]_vars

\* The export has every raw column that the renaming table names.
HasTableColumns == \A k \in 1..Len(TableHeader) : TableHeader[k] \in RawLabels

\* C26: on an export with every raw column that the renaming table names,
\* the frame that the cleaning stage and then the semantic stage hand to
\* calculate_agent_performance_summary has every column that it groups by or
\* aggregates, and the call does not end in a missing-column failure.
C26_StagesCompose ==
    (Loaded(events) /\ HasTableColumns) =>
        /\ SummarySources \subseteq Labels(events)
        /\ analysis_raised \in {Absent, ""}

====
